---- MODULE Spec2Model ----
(***************************************************************************)
(* Model of the Zotero MCP tool handlers of src/src/zotero_mcp/__init__.py *)
(* (format_item, get_item_metadata, get_item_fulltext, search_items, and   *)
(* the tools that write to the library: add_tags_to_item,                  *)
(* add_item_to_collection, add_related_item, restore_deleted_item).        *)
(*                                                                         *)
(* Text.  A Python str is a sequence of atoms.  An atom is a TLA+ string   *)
(* that stands for one character wherever the code looks inside the text   *)
(* (len, slicing, replace, strip, split, capitalize) and for an            *)
(* indivisible fragment otherwise (a literal piece of an f-string, an      *)
(* opaque field value such as a key).  The newline is always the atom      *)
(* "\n" on its own, so the lines of an output are the runs between "\n".   *)
(*                                                                         *)
(* Optional values.  A dict key that may be missing, or a value that may   *)
(* be None, is a sequence of length 0 (missing / None) or 1 (the value).   *)
(*                                                                         *)
(* The emoji of the program's literals are written [memo], [warn], [x],   *)
(* [ok], [info], [alarm], the arrow is written ->, and the backquote is    *)
(* written ^.  In the strings of the writing tools the leading emoji is   *)
(* an atom of its own.                                                     *)
(***************************************************************************)
EXTENDS Integers, Sequences, FiniteSets, TLC

VARIABLES
    zot,        \* the external collaborator: what each of its calls yields
    meta_out,   \* outcome of the last get_item_metadata call, if any
    full_out,   \* outcome of the last get_item_fulltext call, if any
    search_out, \* outcome of the last search_items call, if any
    tags_out,       \* outcome of the last add_tags_to_item call, if any
    collection_out, \* outcome of the last add_item_to_collection call, if any
    related_out,    \* outcome of the last add_related_item call, if any
    restore_out     \* outcome of the last restore_deleted_item call, if any

\* the outcomes of the tools that render
read_outs == <<meta_out, full_out, search_out>>

\* the outcomes of the tools that write
write_outs == <<tags_out, collection_out, related_out, restore_out>>

vars == <<zot, read_outs, write_outs>>

----------------------------------------------------------------------------
(* Python primitives                                                       *)

None == <<>>
Some(v) == <<v>>

\* d.get(k, default)
DictGet(v, default) == IF v = <<>> THEN default ELSE v[1]

\* truth value of d.get(k) for a str- or list-valued key: missing, None and
\* the empty value are all false
Truthy(v) == v # <<>> /\ v[1] # <<>>

NL == <<"\n">>

\* str.isspace() of one character
Whitespace == {" ", "\n", "\t"}

\* sep.join(list)
RECURSIVE Join(_, _)
Join(list, sep) ==
    IF list = <<>> THEN <<>>
    ELSE IF Len(list) = 1 THEN list[1]
    ELSE list[1] \o sep \o Join(Tail(list), sep)

\* s[:n]
Prefix(s, n) == SubSeq(s, 1, IF n < Len(s) THEN n ELSE Len(s))

\* s.find(old) as a 1-based position, 0 when old does not occur in s
Find(s, old) ==
    LET hits == {i \in 1..(Len(s) - Len(old) + 1) :
                    \A k \in DOMAIN old : s[i + k - 1] = old[k]}
    IN IF hits = {} THEN 0
       ELSE CHOOSE i \in hits : \A j \in hits : i <= j

\* s.replace(old, new): leftmost non-overlapping occurrences, one pass
RECURSIVE Replace(_, _, _)
Replace(s, old, new) ==
    LET i == Find(s, old)
    IN IF i = 0 THEN s
       ELSE SubSeq(s, 1, i - 1) \o new
            \o Replace(SubSeq(s, i + Len(old), Len(s)), old, new)

\* s.strip()
Strip(s) ==
    LET keep == {i \in DOMAIN s : s[i] \notin Whitespace}
    IN IF keep = {} THEN <<>>
       ELSE SubSeq(s, CHOOSE i \in keep : \A j \in keep : i <= j,
                      CHOOSE i \in keep : \A j \in keep : i >= j)

\* s.split(sep) for a one-character sep: always at least one piece
RECURSIVE SplitOn(_, _)
SplitOn(s, sep) ==
    IF \A i \in DOMAIN s : s[i] # sep THEN <<s>>
    ELSE LET k == CHOOSE i \in DOMAIN s :
                      s[i] = sep /\ \A j \in 1..(i - 1) : s[j] # sep
         IN <<SubSeq(s, 1, k - 1)>> \o SplitOn(SubSeq(s, k + 1, Len(s)), sep)

\* s.split(): the maximal runs of non-whitespace characters
SplitWords(s) ==
    LET starts == SelectSeq([i \in DOMAIN s |-> i],
                     LAMBDA i : s[i] \notin Whitespace
                                /\ (i = 1 \/ s[i - 1] \in Whitespace))
        End(i) == CHOOSE j \in i..Len(s) :
                      /\ \A k \in i..j : s[k] \notin Whitespace
                      /\ (j = Len(s) \/ s[j + 1] \in Whitespace)
    IN [w \in DOMAIN starts |-> SubSeq(s, starts[w], End(starts[w]))]

Lowers ==
    <<"a", "b", "c", "d", "e", "f", "g", "h", "i", "j", "k", "l", "m",
      "n", "o", "p", "q", "r", "s", "t", "u", "v", "w", "x", "y", "z">>
Uppers ==
    <<"A", "B", "C", "D", "E", "F", "G", "H", "I", "J", "K", "L", "M",
      "N", "O", "P", "Q", "R", "S", "T", "U", "V", "W", "X", "Y", "Z">>

Upper(c) ==
    IF \E i \in DOMAIN Lowers : Lowers[i] = c
    THEN Uppers[CHOOSE i \in DOMAIN Lowers : Lowers[i] = c] ELSE c
Lower(c) ==
    IF \E i \in DOMAIN Uppers : Uppers[i] = c
    THEN Lowers[CHOOSE i \in DOMAIN Uppers : Uppers[i] = c] ELSE c

\* s.capitalize(): first character upper-cased, the rest lower-cased
Capitalize(s) ==
    [i \in DOMAIN s |-> IF i = 1 THEN Upper(s[i]) ELSE Lower(s[i])]

Digits == <<"0", "1", "2", "3", "4", "5", "6", "7", "8", "9">>

\* str(n) for n >= 0
RECURSIVE IntToStr(_)
IntToStr(n) ==
    IF n < 10 THEN <<Digits[n + 1]>>
    ELSE IntToStr(n \div 10) \o <<Digits[(n % 10) + 1]>>

\* the literal "..." (three characters)
Dots == <<".", ".", ".">>

----------------------------------------------------------------------------
(* format_item                                                             *)

\* the note HTML clean-up of format_item
NoteToMarkdown(note) ==
    LET s1 == Replace(note, <<"<", "p", ">">>, <<>>)
        s2 == Replace(s1, <<"<", "/", "p", ">">>, NL)
        s3 == Replace(s2, <<"<", "b", "r", ">">>, NL)
        s4 == Replace(s3, <<"<", "s", "t", "r", "o", "n", "g", ">">>, <<"*", "*">>)
        s5 == Replace(s4, <<"<", "/", "s", "t", "r", "o", "n", "g", ">">>, <<"*", "*">>)
        s6 == Replace(s5, <<"<", "e", "m", ">">>, <<"*">>)
    IN Replace(s6, <<"<", "/", "e", "m", ">">>, <<"*">>)

\* the inline code span of each tag
TagSpans(tags) == [i \in DOMAIN tags |-> <<"^">> \o tags[i].tag \o <<"^">>]

\* the list formatted of a note record
FormatNote(item) ==
    LET data == item.data
        note_content == NoteToMarkdown(DictGet(data.note, <<>>))
    IN <<
         <<"## [memo] Note">>,
         <<"Item Key: ^">> \o item.key \o <<"^">>
       >>
       \o (IF Truthy(data.parentItem)
           THEN << <<"Parent Item: ^">> \o data.parentItem[1] \o <<"^">> >>
           ELSE <<>>)
       \o (IF Truthy(data.dateModified)
           THEN << <<"Last Modified: ">> \o data.dateModified[1] >>
           ELSE <<>>)
       \o (IF Truthy(data.tags)
           THEN << NL \o <<"### Tags">> \o NL
                   \o Join(TagSpans(data.tags[1]), <<", ">>) >>
           ELSE <<>>)
       \o << NL \o <<"### Note Content">> \o NL \o note_content >>

Contributor == <<"c", "o", "n", "t", "r", "i", "b", "u", "t", "o", "r">>

\* the display name of one creator in format_item; empty when it has none
CreatorName(creator) ==
    IF creator.firstName # <<>> /\ creator.lastName # <<>>
    THEN creator.lastName[1] \o <<", ">> \o creator.firstName[1]
    ELSE IF creator.name # <<>> THEN creator.name[1] ELSE <<>>

\* creators_by_role: an insertion-ordered dict, as a sequence of
\* [role, names] entries with distinct roles
RECURSIVE CreatorsByRole(_, _)
CreatorsByRole(creators, by_role) ==
    IF creators = <<>> THEN by_role
    ELSE LET creator == Head(creators)
             role == DictGet(creator.creatorType, Contributor)
             name == CreatorName(creator)
             added ==
                 IF name = <<>> THEN by_role
                 ELSE IF \E i \in DOMAIN by_role : by_role[i].role = role
                 THEN [i \in DOMAIN by_role |->
                         IF by_role[i].role = role
                         THEN [by_role[i] EXCEPT !.names = Append(@, name)]
                         ELSE by_role[i]]
                 ELSE Append(by_role, [role |-> role, names |-> <<name>>])
         IN CreatorsByRole(Tail(creators), added)

\* RoleLines with the plural decided by len(names) >= 1
RoleLinesPluralFromOne(by_role) ==
    [i \in DOMAIN by_role |->
        Capitalize(by_role[i].role)
        \o (IF Len(by_role[i].names) >= 1 THEN <<"s">> ELSE <<>>)
        \o <<": ">> \o Join(by_role[i].names, <<"; ">>)]

\* one "Role(s): name; name" line per entry of creators_by_role
RoleLines(by_role) ==
    [i \in DOMAIN by_role |->
        Capitalize(by_role[i].role)
        \o (IF Len(by_role[i].names) > 1 THEN <<"s">> ELSE <<>>)
        \o <<": ">> \o Join(by_role[i].names, <<"; ">>)]

\* PublicationLines with the volume details nested under the publication
\* title and appended to its line
PublicationLinesNested(data) ==
    IF Truthy(data.publicationTitle)
    THEN << <<"Publication: ">> \o data.publicationTitle[1]
            \o (IF Truthy(data.volume)
                THEN <<", ">> \o <<"Volume: ">> \o data.volume[1]
                     \o (IF Truthy(data.issue)
                         THEN <<", Issue: ">> \o data.issue[1] ELSE <<>>)
                     \o (IF Truthy(data.pages)
                         THEN <<", Pages: ">> \o data.pages[1] ELSE <<>>)
                ELSE <<>>) >>
    ELSE <<>>

\* the publication details of a regular record
PublicationLines(data) ==
    (IF Truthy(data.publicationTitle)
     THEN << <<"Publication: ">> \o data.publicationTitle[1] >>
     ELSE <<>>)
    \o (IF Truthy(data.volume)
        THEN << <<"Volume: ">> \o data.volume[1]
                \o (IF Truthy(data.issue)
                    THEN <<", Issue: ">> \o data.issue[1] ELSE <<>>)
                \o (IF Truthy(data.pages)
                    THEN <<", Pages: ">> \o data.pages[1] ELSE <<>>) >>
        ELSE <<>>)

\* Identifiers with the DOI put before the URL
IdentifiersDoiFirst(data) ==
    (IF Truthy(data.DOI) THEN << <<"DOI: ">> \o data.DOI[1] >> ELSE <<>>)
    \o (IF Truthy(data.url) THEN << <<"URL: ">> \o data.url[1] >> ELSE <<>>)
    \o (IF Truthy(data.ISBN) THEN << <<"ISBN: ">> \o data.ISBN[1] >> ELSE <<>>)
    \o (IF Truthy(data.ISSN) THEN << <<"ISSN: ">> \o data.ISSN[1] >> ELSE <<>>)

\* the list identifiers
Identifiers(data) ==
    (IF Truthy(data.url) THEN << <<"URL: ">> \o data.url[1] >> ELSE <<>>)
    \o (IF Truthy(data.DOI) THEN << <<"DOI: ">> \o data.DOI[1] >> ELSE <<>>)
    \o (IF Truthy(data.ISBN) THEN << <<"ISBN: ">> \o data.ISBN[1] >> ELSE <<>>)
    \o (IF Truthy(data.ISSN) THEN << <<"ISSN: ">> \o data.ISSN[1] >> ELSE <<>>)

\* item.get("meta", {}).get("numChildren", 0)
NumChildren(item) ==
    IF item.meta = <<>> THEN 0 ELSE DictGet(item.meta[1].numChildren, 0)

\* the list formatted of a regular (non-note) record
FormatRegular(item, item_type) ==
    LET data == item.data
    IN <<
         <<"## ">> \o DictGet(data.title, <<"Untitled">>),
         <<"Item Key: ^">> \o item.key \o <<"^">>,
         <<"Type: ">> \o item_type,
         <<"Date: ">> \o DictGet(data.date, <<"No date">>)
       >>
       \o RoleLines(CreatorsByRole(DictGet(data.creators, <<>>), <<>>))
       \o PublicationLines(data)
       \o (IF Truthy(data.abstractNote)
           THEN << NL \o <<"### Abstract">> \o NL \o data.abstractNote[1] >>
           ELSE <<>>)
       \o (IF Truthy(data.tags)
           THEN << NL \o <<"### Tags">> \o NL
                   \o Join(TagSpans(data.tags[1]), <<", ">>) >>
           ELSE <<>>)
       \o (IF Identifiers(data) # <<>>
           THEN << NL \o <<"### Identifiers">> \o NL
                   \o Join(Identifiers(data), NL) >>
           ELSE <<>>)
       \o (IF NumChildren(item) # 0
           THEN << NL \o <<"### Additional Information">> \o NL
                   \o <<"Number of notes/attachments: ">>
                   \o IntToStr(NumChildren(item)) >>
           ELSE <<>>)

NoteType == <<"note">>

format_item(item) ==
    LET item_type == DictGet(item.data.itemType, <<"unknown">>)
    IN IF item_type = NoteType
       THEN Join(FormatNote(item), NL)
       ELSE Join(FormatRegular(item, item_type), NL)

----------------------------------------------------------------------------
(* search_items: one entry per result                                      *)

\* SearchNoteToMarkdown without the line-break substitution
SearchNoteToMarkdownNoBr(note) ==
    LET s1 == Replace(note, <<"<", "p", ">">>, <<>>)
        s2 == Replace(s1, <<"<", "/", "p", ">">>, NL)
        s4 == Replace(s2, <<"<", "s", "t", "r", "o", "n", "g", ">">>, <<"*", "*">>)
        s5 == Replace(s4, <<"<", "/", "s", "t", "r", "o", "n", "g", ">">>, <<"*", "*">>)
        s6 == Replace(s5, <<"<", "e", "m", ">">>, <<"*">>)
    IN Replace(s6, <<"<", "/", "e", "m", ">">>, <<"*">>)

\* the note HTML clean-up of search_items
SearchNoteToMarkdown(note) ==
    LET s1 == Replace(note, <<"<", "p", ">">>, <<>>)
        s2 == Replace(s1, <<"<", "/", "p", ">">>, NL)
        s3 == Replace(s2, <<"<", "b", "r", ">">>, NL)
        s4 == Replace(s3, <<"<", "s", "t", "r", "o", "n", "g", ">">>, <<"*", "*">>)
        s5 == Replace(s4, <<"<", "/", "s", "t", "r", "o", "n", "g", ">">>, <<"*", "*">>)
        s6 == Replace(s5, <<"<", "e", "m", ">">>, <<"*">>)
    IN Replace(s6, <<"<", "/", "e", "m", ">">>, <<"*">>)

TitleLimit == 50
TitleWords == 5
PreviewLimit == 150
PreviewKeep == 147
MaxSearchTags == 5
MaxSearchCreators == 3

\* TitlePreview with the first line kept only below the limit
TitlePreviewBelowLimit(note_content) ==
    IF note_content = <<>> THEN <<>>
    ELSE LET lines == SplitOn(Strip(note_content), "\n")
             first_line == Strip(lines[1])
         IN IF first_line = <<>> THEN <<>>
            ELSE IF Len(first_line) < TitleLimit THEN first_line
            ELSE Join(Prefix(SplitWords(first_line), TitleWords), <<" ">>)
                 \o Dots

\* title_preview of a note entry, "" when no title can be extracted
TitlePreview(note_content) ==
    IF note_content = <<>> THEN <<>>
    ELSE LET lines == SplitOn(Strip(note_content), "\n")
             first_line == Strip(lines[1])
         IN IF first_line = <<>> THEN <<>>
            ELSE IF Len(first_line) <= TitleLimit THEN first_line
            ELSE Join(Prefix(SplitWords(first_line), TitleWords), <<" ">>)
                 \o Dots

\* Truncate keeping the first 150 characters before the dots
TruncateKeepLimit(text) ==
    IF Len(text) > PreviewLimit THEN Prefix(text, PreviewLimit) \o Dots
    ELSE text

\* text truncated for a search entry (abstract, note preview)
Truncate(text) ==
    IF Len(text) > PreviewLimit THEN Prefix(text, PreviewKeep) \o Dots
    ELSE text

\* SearchTagLine with the "..." token from 5 tags on
SearchTagLineDotsFromFive(tags) ==
    LET tag_list == TagSpans(Prefix(tags, MaxSearchTags))
                    \o (IF Len(tags) >= MaxSearchTags THEN <<Dots>> ELSE <<>>)
    IN NL \o <<"**Tags**: ">> \o Join(tag_list, <<" ">>)

\* the tag line of a search entry
SearchTagLine(tags) ==
    LET tag_list == TagSpans(Prefix(tags, MaxSearchTags))
                    \o (IF Len(tags) > MaxSearchTags THEN <<Dots>> ELSE <<>>)
    IN NL \o <<"**Tags**: ">> \o Join(tag_list, <<" ">>)

\* the list entry of a note result; i is the 0-based index
SearchNoteEntry(item, i) ==
    LET data == item.data
        note_content == SearchNoteToMarkdown(DictGet(data.note, <<>>))
        title_preview == TitlePreview(note_content)
        note_title == IF title_preview # <<>> THEN title_preview ELSE <<"Note">>
        preview == Truncate(Strip(note_content))
    IN << <<"## ">> \o IntToStr(i + 1) \o <<". [memo] ">> \o note_title,
          <<"**Type**: Note | **Key**: ^">> \o item.key \o <<"^">> >>
       \o (IF Truthy(data.parentItem)
           THEN << <<"**Parent Item**: ^">> \o data.parentItem[1] \o <<"^">> >>
           ELSE <<>>)
       \o << NL \o preview >>
       \o (IF Truthy(data.tags)
           THEN << SearchTagLine(data.tags[1]) >> ELSE <<>>)

\* the list creators of a regular result
RECURSIVE SearchCreatorNames(_)
SearchCreatorNames(creators) ==
    IF creators = <<>> THEN <<>>
    ELSE LET creator == Head(creators)
         IN (IF creator.firstName # <<>> /\ creator.lastName # <<>>
             THEN << creator.lastName[1] \o <<", ">> \o creator.firstName[1] >>
             ELSE IF creator.name # <<>> THEN << creator.name[1] >>
             ELSE <<>>)
            \o SearchCreatorNames(Tail(creators))

\* CreatorStr with "et al." from 3 creators on
CreatorStrEtAlFromThree(all_creators) ==
    LET creators == SearchCreatorNames(Prefix(all_creators, MaxSearchCreators))
                    \o (IF Len(all_creators) >= MaxSearchCreators
                        THEN << <<"et al.">> >> ELSE <<>>)
    IN IF creators # <<>> THEN Join(creators, <<"; ">>) ELSE <<"No authors">>

\* creator_str of a regular result
CreatorStr(all_creators) ==
    LET creators == SearchCreatorNames(Prefix(all_creators, MaxSearchCreators))
                    \o (IF Len(all_creators) > MaxSearchCreators
                        THEN << <<"et al.">> >> ELSE <<>>)
    IN IF creators # <<>> THEN Join(creators, <<"; ">>) ELSE <<"No authors">>

\* source of a regular result, "" when there is none
Source(data) ==
    IF Truthy(data.publicationTitle) THEN data.publicationTitle[1]
    ELSE IF Truthy(data.bookTitle) THEN <<"In: ">> \o data.bookTitle[1]
    ELSE IF Truthy(data.publisher) THEN data.publisher[1]
    ELSE <<>>

\* the list entry of a regular result; i is the 0-based index
SearchRegularEntry(item, item_type, i) ==
    LET data == item.data
        abstract == Truncate(DictGet(data.abstractNote, <<>>))
    IN << <<"## ">> \o IntToStr(i + 1) \o <<". ">>
             \o DictGet(data.title, <<"Untitled">>),
          <<"**Type**: ">> \o item_type \o <<" | **Date**: ">>
             \o DictGet(data.date, <<>>) \o <<" | **Key**: ^">>
             \o item.key \o <<"^">>,
          <<"**Authors**: ">> \o CreatorStr(DictGet(data.creators, <<>>)) >>
       \o (IF Source(data) # <<>>
           THEN << <<"**Source**: ">> \o Source(data) >> ELSE <<>>)
       \o (IF abstract # <<>> THEN << NL \o abstract >> ELSE <<>>)
       \o (IF Truthy(data.tags)
           THEN << SearchTagLine(data.tags[1]) >> ELSE <<>>)

\* one element of formatted_results
SearchEntry(item, i) ==
    LET item_type == DictGet(item.data.itemType, <<"unknown">>)
    IN IF item_type = NoteType
       THEN Join(SearchNoteEntry(item, i), NL)
       ELSE Join(SearchRegularEntry(item, item_type, i), NL)

\* the rendering part of search_items, for a non-empty result list
SearchDigest(query, tag, results) ==
    LET header ==
            << <<"# Search Results for: '">> \o query \o <<"'">>,
               <<"Found ">> \o IntToStr(Len(results)) \o <<" items.">>
                  \o (IF Truthy(tag)
                      THEN <<" Using tag filter: ">> \o tag[1] ELSE <<>>),
               <<"Use item keys with zotero_item_metadata or zotero_item_fulltext for more details.">>
                  \o NL >>
        formatted_results ==
            [i \in DOMAIN results |-> SearchEntry(results[i], i - 1)]
    IN Join(header \o formatted_results, NL \o NL)

----------------------------------------------------------------------------
(* The tool handlers.  An outcome is what a call hands to its caller: the  *)
(* string it returns or the exception that escapes it, with the calls it   *)
(* made on the collaborator, in order, each with its argument.             *)

Call(op, arg) == [op |-> op, arg |-> arg]

\* get_zotero_client() takes no argument
ClientCall == Call("get_zotero_client", <<>>)

\* str(e) of the exception a failing collaborator call raises
ErrorMessage(call) == <<"failure of ", call>>

Returned(val, calls) == Some([kind |-> "return", val |-> val, calls |-> calls])
Raised(call, calls) ==
    Some([kind |-> "raise", val |-> ErrorMessage(call), calls |-> calls])

\* the names of the calls of an outcome, in order
Ops(calls) == [i \in DOMAIN calls |-> calls[i].op]

\* get_zotero_client(): raises when the configuration is incomplete
get_zotero_client(z) == z.client_raises

\* get_attachment_details(zot, item): an attachment descriptor or None; it
\* reads the children of the item and may fail as that fetch does
get_attachment_details(z) == z.attachment

get_item_metadata(z, item_key) ==
    IF get_zotero_client(z)
    THEN Raised("get_zotero_client", <<ClientCall>>)
    ELSE LET calls == <<ClientCall, Call("item", item_key)>>
         IN IF z.item_raises
            THEN Returned(<<"Error retrieving item metadata: ">>
                          \o ErrorMessage("item"), calls)
            ELSE IF z.item = None
            THEN Returned(<<"No item found with key: ">> \o item_key, calls)
            ELSE Returned(format_item(z.item[1]), calls)

\* truth value of a dict: it has at least one key
FullTextTruthy(d) == d.content # <<>> \/ d.indexedPages # <<>>

ExtractionWarning ==
    <<"[[warn] Attachment is available but text extraction is not possible. The document may be scanned as images or have other restrictions that prevent text extraction.]">>

NoAttachmentMessage ==
    <<"[[x] No suitable attachment found for full text extraction. This item may not have any attached files or they may not be in a supported format.]">>

\* the attachment_info and full_text parts of get_item_fulltext once the
\* attachment is resolved and the full text fetched
AttachmentSections(attachment, full_text_data) ==
    LET attachment_info ==
            NL \o <<"## Attachment Information">> \o NL
            \o <<"- **Key**: ^">> \o attachment.key \o <<"^">> \o NL
            \o <<"- **Type**: ">> \o attachment.content_type
    IN IF full_text_data # None /\ FullTextTruthy(full_text_data[1])
          /\ full_text_data[1].content # <<>>
       THEN LET item_text == full_text_data[1].content[1]
                word_count == Len(SplitWords(item_text))
            IN attachment_info
               \o NL \o <<"- **Word Count**: ~">> \o IntToStr(word_count)
               \o NL \o NL \o <<"## Document Content">> \o NL \o NL
               \o item_text
       ELSE attachment_info
            \o NL \o NL \o <<"## Document Content">> \o NL \o NL
            \o ExtractionWarning

\* the attachment_info and full_text parts when no attachment is resolved,
\* with a document section added
NoAttachmentSectionsWithContent ==
    NL \o NL \o <<"## Attachment Information">> \o NL \o NoAttachmentMessage
    \o NL \o NL \o <<"## Document Content">> \o NL \o NL \o ExtractionWarning

\* the attachment_info and full_text parts when no attachment is resolved
NoAttachmentSections ==
    NL \o NL \o <<"## Attachment Information">> \o NL \o NoAttachmentMessage

\* the full text is asked for the key of the record itself
FullTextTargetItem(attachment, item_key) == item_key

\* the key zot.fulltext_item is called with
FullTextTarget(attachment, item_key) == attachment.key

get_item_fulltext(z, item_key) ==
    IF get_zotero_client(z)
    THEN Raised("get_zotero_client", <<ClientCall>>)
    ELSE LET c1 == <<ClientCall, Call("item", item_key)>>
             c2 == Append(c1, Call("get_attachment_details", z.item[1].key))
             c3 == Append(c2, Call("fulltext_item",
                                   FullTextTarget(z.attachment[1], item_key)))
             Error(call) == <<"Error retrieving item full text: ">>
                            \o ErrorMessage(call)
         IN IF z.item_raises THEN Returned(Error("item"), c1)
            ELSE IF z.item = None
            THEN Returned(<<"No item found with key: ">> \o item_key, c1)
            ELSE IF z.attachment_raises
            THEN Returned(Error("get_attachment_details"), c2)
            ELSE LET attachment == get_attachment_details(z)
                     header == format_item(z.item[1])
                 IN IF attachment # None
                    THEN IF z.fulltext_raises
                         THEN Returned(Error("fulltext_item"), c3)
                         ELSE Returned(header
                                \o AttachmentSections(attachment[1], z.fulltext),
                                c3)
                    ELSE Returned(header \o NoAttachmentSections, c2)

search_items(z, query, tag) ==
    IF get_zotero_client(z)
    THEN Raised("get_zotero_client", <<ClientCall>>)
    ELSE LET calls == <<ClientCall, Call("add_parameters", query),
                        Call("items", <<>>)>>
         IN IF z.search_raises THEN Raised("items", calls)
            ELSE IF z.results = <<>>
            THEN Returned(<<"No items found matching your query.">>, calls)
            ELSE Returned(SearchDigest(query, tag, z.results), calls)

----------------------------------------------------------------------------
(* The records and collaborators the handlers are run on                   *)

EmptyData ==
    [itemType |-> None, title |-> None, date |-> None, creators |-> None,
     publicationTitle |-> None, bookTitle |-> None, publisher |-> None,
     volume |-> None, issue |-> None, pages |-> None, abstractNote |-> None,
     tags |-> None, url |-> None, DOI |-> None, ISBN |-> None, ISSN |-> None,
     parentItem |-> None, dateModified |-> None, note |-> None]

ItemKey == <<"ABCD1234">>

Item(data) == [key |-> ItemKey, data |-> data, meta |-> None]

Author == <<"a", "u", "t", "h", "o", "r">>
Editor == <<"e", "d", "i", "t", "o", "r">>
BookAuthor == <<"b", "o", "o", "k", "A", "u", "t", "h", "o", "r">>

Person(role, first, last) ==
    [creatorType |-> Some(role), firstName |-> Some(first),
     lastName |-> Some(last), name |-> None]

\* the article of the test suite
SampleItem ==
    [key |-> ItemKey,
     data |-> [EmptyData EXCEPT
                 !.itemType = Some(<<"journalArticle">>),
                 !.title = Some(<<"Test Article">>),
                 !.date = Some(<<"2024">>),
                 !.creators = Some(<<Person(Author, <<"John">>, <<"Doe">>),
                                     Person(Author, <<"Jane">>, <<"Smith">>)>>),
                 !.abstractNote = Some(<<"This is a test abstract">>),
                 !.tags = Some(<<[tag |-> <<"test">>], [tag |-> <<"article">>]>>),
                 !.url = Some(<<"https://example.com">>),
                 !.DOI = Some(<<"10.1234/test">>)],
     meta |-> Some([numChildren |-> Some(2)])]

SampleNote ==
    [key |-> <<"NOTE5678">>,
     data |-> [EmptyData EXCEPT
                 !.itemType = Some(NoteType),
                 !.parentItem = Some(ItemKey),
                 !.note = Some(<<"<", "p", ">", "H", "i", "<", "/", "p", ">">>)],
     meta |-> None]

SampleAttachment ==
    [key |-> <<"XYZ789">>, content_type |-> <<"application/pdf">>]

\* a second attachment a record may resolve to
SnapshotAttachment ==
    [key |-> <<"SNAP4567">>, content_type |-> <<"text/html">>]

FullText(content, pages) == [content |-> content, indexedPages |-> pages]

\* a collaborator that answers every call, holding one record
ZotOk(item) ==
    [client_raises |-> FALSE,
     item_raises |-> FALSE, item |-> Some(item),
     attachment_raises |-> FALSE, attachment |-> Some(SampleAttachment),
     fulltext_raises |-> FALSE,
     fulltext |-> Some(FullText(Some(<<"a", " ", "b">>), None)),
     search_raises |-> FALSE, results |-> <<item>>]

ItemKeys == {ItemKey}
Queries == {<<"test">>}
TagFilters == {None, Some(<<"tag1">>)}

----------------------------------------------------------------------------
(* The calls of the tool-calling surface                                   *)

GetItemMetadata ==
    \E item_key \in ItemKeys :
        /\ meta_out' = get_item_metadata(zot, item_key)
        /\ UNCHANGED <<zot, full_out, search_out, write_outs>>

GetItemFulltext ==
    \E item_key \in ItemKeys :
        /\ full_out' = get_item_fulltext(zot, item_key)
        /\ UNCHANGED <<zot, meta_out, search_out, write_outs>>

SearchItems ==
    \E query \in Queries, tag \in TagFilters :
        /\ search_out' = search_items(zot, query, tag)
        /\ UNCHANGED <<zot, meta_out, full_out, write_outs>>

Next == GetItemMetadata \/ GetItemFulltext \/ SearchItems

NoCalls ==
    /\ meta_out = None /\ full_out = None /\ search_out = None
    /\ tags_out = None /\ collection_out = None
    /\ related_out = None /\ restore_out = None

----------------------------------------------------------------------------
(* Collaborators that may fail or answer with nothing                      *)

MaxTextLen == 3

\* the sequences of at most n elements of alphabet
RECURSIVE Texts(_, _)
Texts(alphabet, n) ==
    IF n = 0 THEN {<<>>}
    ELSE Texts(alphabet, n - 1)
         \cup {Append(t, c) : t \in Texts(alphabet, n - 1), c \in alphabet}

FullTextResults ==
    {None, Some(FullText(None, None)), Some(FullText(None, Some(<<"1">>)))}
    \cup {Some(FullText(Some(t), None)) : t \in Texts({"a", " ", "\n"}, MaxTextLen)}

FaultyWorlds ==
    {[ZotOk(SampleItem) EXCEPT
        !.client_raises = c, !.item_raises = ir, !.item = i,
        !.attachment_raises = ar, !.attachment = a,
        !.fulltext_raises = fr, !.search_raises = sr, !.results = rs] :
      c \in BOOLEAN, ir \in BOOLEAN, i \in {None, Some(SampleItem)},
      ar \in BOOLEAN,
      a \in {None, Some(SampleAttachment), Some(SnapshotAttachment)},
      fr \in BOOLEAN, sr \in BOOLEAN,
      rs \in {<<>>, <<SampleItem>>, <<SampleItem, SampleNote>>}}

FullTextWorlds ==
    {[ZotOk(SampleItem) EXCEPT !.attachment = a, !.fulltext = f] :
      a \in {None, Some(SampleAttachment)}, f \in FullTextResults}

InitTools == zot \in FaultyWorlds \cup FullTextWorlds /\ NoCalls

SpecTools == InitTools /\ [][Next]_vars

----------------------------------------------------------------------------
(* Regular records that differ in which fields they have                   *)

\* a field that is missing, empty, or set
Opt3(v) == {None, Some(<<>>), Some(v)}
\* a field that is missing or set
Opt2(v) == {None, Some(v)}

OneAuthor == <<Person(Author, <<"John">>, <<"Doe">>)>>
AuthorAndEditor ==
    <<Person(Author, <<"John">>, <<"Doe">>),
      [creatorType |-> Some(Editor), firstName |-> None, lastName |-> None,
       name |-> Some(<<"ACME Press">>)]>>

PublicationItems ==
    {Item([EmptyData EXCEPT
             !.itemType = Some(<<"journalArticle">>),
             !.title = Some(<<"Test Article">>),
             !.creators = c, !.publicationTitle = p,
             !.volume = v, !.issue = i, !.pages = g]) :
       c \in Opt2(OneAuthor), p \in Opt3(<<"Journal of Tests">>),
       v \in Opt3(<<"12">>), i \in Opt3(<<"3">>), g \in Opt3(<<"45-67">>)}

SectionItems ==
    {[key |-> ItemKey,
      data |-> [EmptyData EXCEPT
                  !.itemType = Some(<<"book">>),
                  !.title = f[1], !.date = f[2], !.creators = c,
                  !.publicationTitle = f[3], !.volume = f[4],
                  !.abstractNote = f[5], !.tags = f[6],
                  !.url = f[7], !.DOI = f[8], !.ISBN = f[9], !.ISSN = f[10]],
      meta |-> m] :
       f \in Opt2(<<"Test Article">>) \X Opt2(<<"2024">>)
             \X Opt2(<<"Journal of Tests">>) \X Opt2(<<"12">>)
             \X Opt2(<<"This is a test abstract">>)
             \X Opt2(<<[tag |-> <<"test">>]>>)
             \X Opt2(<<"https://example.com">>) \X Opt2(<<"10.1234/test">>)
             \X Opt2(<<"978-3-16">>) \X Opt2(<<"1234-5678">>),
       c \in {None, Some(OneAuthor), Some(AuthorAndEditor)},
       m \in {None, Some([numChildren |-> Some(0)]),
              Some([numChildren |-> Some(2)])}}

InitPublication == zot \in {ZotOk(i) : i \in PublicationItems} /\ NoCalls

SpecPublication == InitPublication /\ [][Next]_vars

InitSections == zot \in {ZotOk(i) : i \in SectionItems} /\ NoCalls

SpecSections == InitSections /\ [][Next]_vars

----------------------------------------------------------------------------
(* Regular records that differ in their creators                           *)

MaxCreators == 4

\* the shapes a creator entry comes in: two name parts, a single name, no
\* role, a lone last name (nothing to display), an empty single name
CreatorKinds ==
    {Person(Author, <<"John">>, <<"Doe">>),
     Person(Author, <<"Jane">>, <<"Smith">>),
     [creatorType |-> Some(BookAuthor), firstName |-> None,
      lastName |-> None, name |-> Some(<<"ACME Press">>)],
     [creatorType |-> None, firstName |-> None, lastName |-> None,
      name |-> Some(<<"Anonymous">>)],
     [creatorType |-> Some(Editor), firstName |-> None,
      lastName |-> Some(<<"Solo">>), name |-> None],
     [creatorType |-> Some(Author), firstName |-> None, lastName |-> None,
      name |-> Some(<<>>)]}

CreatorItems ==
    {Item([EmptyData EXCEPT
             !.itemType = Some(<<"journalArticle">>),
             !.title = Some(<<"Test Article">>),
             !.date = Some(<<"2024">>),
             !.creators = Some(c)]) : c \in Texts(CreatorKinds, MaxCreators)}

InitCreators == zot \in {ZotOk(i) : i \in CreatorItems} /\ NoCalls

SpecCreators == InitCreators /\ [][Next]_vars

----------------------------------------------------------------------------
(* Records that differ in their tags                                       *)

MaxTags == 7

TagLists == Texts({[tag |-> <<"test">>], [tag |-> <<"article">>]}, MaxTags)

TagItems ==
    {Item([EmptyData EXCEPT
             !.itemType = Some(t),
             !.title = Some(<<"Test Article">>),
             !.note = Some(<<"H", "i">>),
             !.tags = Some(tags)]) :
       t \in {<<"journalArticle">>, NoteType}, tags \in TagLists}

InitTags == zot \in {ZotOk(i) : i \in TagItems} /\ NoCalls

SpecTags == InitTags /\ [][Next]_vars

----------------------------------------------------------------------------
(* Records that differ in their text: abstracts and notes                  *)

\* how far beyond the truncation limit the texts go
MaxOver == 2

\* a text of n characters without whitespace
Pattern(n, shift) ==
    [i \in 1..n |-> <<"a", "b", "c">>[((i + shift) % 3) + 1]]

LongTexts ==
    {Pattern(n, shift) :
       n \in (0..2) \cup ((PreviewKeep - 1)..(PreviewLimit + MaxOver)),
       shift \in 0..1}

POpen == <<"<", "p", ">">>
PClose == <<"<", "/", "p", ">">>

NoteItem(note) ==
    Item([EmptyData EXCEPT !.itemType = Some(NoteType), !.note = note])

AbstractItems ==
    {Item([EmptyData EXCEPT
             !.itemType = Some(<<"journalArticle">>),
             !.title = Some(<<"Test Article">>),
             !.abstractNote = Some(t)]) : t \in LongTexts}
    \cup {NoteItem(Some(POpen \o t \o PClose)) : t \in LongTexts}

\* the number of pieces a note is put together from
MaxPieces == 2

\* the tags the clean-up knows, a tag it does not know, a tag with an
\* attribute, plain text, and a line break that only exists once the
\* paragraph tag inside it is removed
Pieces ==
    {POpen, PClose, <<"<", "b", "r", ">">>,
     <<"<", "s", "t", "r", "o", "n", "g", ">">>,
     <<"<", "/", "s", "t", "r", "o", "n", "g", ">">>,
     <<"<", "e", "m", ">">>, <<"<", "/", "e", "m", ">">>,
     <<"<", "u", ">">>, <<"<", "p", " ", "i", "d", ">">>,
     <<"H", "i">>,
     <<"<", "<", "p", ">", "b", "r", ">">>}

\* a + b + ... : concatenation of a list of strings
RECURSIVE Concat(_)
Concat(parts) ==
    IF parts = <<>> THEN <<>> ELSE Head(parts) \o Concat(Tail(parts))

HelloWorld ==
    POpen \o <<"H", "e", "l", "l", "o">> \o PClose
    \o POpen \o <<"W", "o", "r", "l", "d">> \o PClose

PieceNotes ==
    {NoteItem(Some(Concat(ps))) : ps \in Texts(Pieces, MaxPieces)}
    \cup {NoteItem(Some(HelloWorld)), NoteItem(None)}

\* the number of words on the first line of a note
MaxWords == 6

\* the j-th word of a line, n characters long
Word(j, n) == [i \in 1..n |-> Digits[j + 1]]

\* a line of k words of n characters, the last one longer by extra
WordLine(k, n, extra, sep) ==
    Join([j \in 1..k |-> Word(j, IF j = k THEN n + extra ELSE n)], sep)

TitleNotes ==
    {NoteItem(Some(lead \o WordLine(k, n, extra, sep) \o trail \o rest)) :
       lead \in {<<>>, POpen \o <<" ">>},
       k \in 0..MaxWords, n \in {1, 9, 12}, extra \in 0..2,
       sep \in {<<" ">>, <<" ", "\t">>},
       trail \in {<<>>, <<" ">>},
       rest \in {<<>>, PClose \o POpen \o <<"z", "z">> \o PClose}}

InitText ==
    /\ zot \in {ZotOk(i) : i \in AbstractItems \cup PieceNotes \cup TitleNotes}
    /\ NoCalls

SpecText == InitText /\ [][Next]_vars

----------------------------------------------------------------------------
(* Reading an output back                                                  *)

Has(s, atom) == \E i \in DOMAIN s : s[i] = atom

\* position of the first occurrence of atom in s
IndexOf(s, atom) ==
    CHOOSE i \in DOMAIN s : s[i] = atom /\ \A j \in 1..(i - 1) : s[j] # atom

\* what follows the first occurrence of atom in s
After(s, atom) == SubSeq(s, IndexOf(s, atom) + 1, Len(s))

Lines(s) == SplitOn(s, "\n")

\* the lines of s that begin with the atom
LinesWith(s, atom) ==
    SelectSeq(Lines(s), LAMBDA l : l # <<>> /\ l[1] = atom)

\* number of whitespace-separated tokens: the places where a token starts
WordStarts(s) ==
    Cardinality({i \in DOMAIN s :
                    s[i] \notin Whitespace /\ (i = 1 \/ s[i - 1] \in Whitespace)})

----------------------------------------------------------------------------
(* The tools that write to the library.  Here zot is a library: the        *)
(* records it holds by key (None for a key it does not know), the keys of  *)
(* its collections, its trash, and which of its calls fail.  zot.item      *)
(* answers with the record as last stored; zot.update_item stores the      *)
(* record it is given, and stores nothing when it raises.                  *)

\* what a handler leaves behind: its outcome and the library after it
Done(out, z) == [out |-> out, zot |-> z]

\* the outcome of a call, kept with the arguments of the call
Invoked(args, out) ==
    Some([args |-> args, kind |-> out[1].kind, val |-> out[1].val,
          calls |-> out[1].calls])

\* the "Error: <str(e)>" string of the except clause of the writing tools
WriteError(call) == <<"[alarm]", " Error: ">> \o ErrorMessage(call)

\* zot.update_item(item) that does not raise
Stored(z, item) == [z EXCEPT !.items[item.key] = Some(item)]

\* the elements of a Python set in the order an iteration visits them;
\* order lists the elements in hash order, which differs from run to run
SetOrder(order, set) == SelectSeq(order, LAMBDA k : k \in set)

\* the elements of a list, as a set
Range(list) == {list[i] : i \in DOMAIN list}

\* the collections written, should the requested ones replace the old ones
UpdatedCollectionsReplaced(current_collections, valid_collections) ==
    valid_collections

\* current_collections.union(valid_collections)
UpdatedCollections(current_collections, valid_collections) ==
    current_collections \cup valid_collections

add_item_to_collection(z, item_key, collection_keys, order) ==
    IF get_zotero_client(z)
    THEN Done(Raised("get_zotero_client", <<ClientCall>>), z)
    ELSE LET c1 == <<ClientCall, Call("item", item_key)>>
         IN IF z.item_raises
            THEN Done(Returned(WriteError("item"), c1), z)
            ELSE IF z.items[item_key] = None
            THEN Done(Returned(<<"[x]", " Item not found: ">> \o item_key, c1), z)
            ELSE
            LET item == z.items[item_key][1]
                current_collections == DictGet(item.data.collections, {})
                missing == {i \in DOMAIN collection_keys :
                               collection_keys[i] \notin z.collections}
                first_missing ==
                    CHOOSE i \in missing : \A j \in missing : i <= j
                Looked(n) ==
                    c1 \o [i \in 1..n |->
                              Call("collection", collection_keys[i])]
            IN IF missing # {}
               THEN IF z.collection_raises
                    THEN Done(Returned(WriteError("collection"),
                                       Looked(first_missing)), z)
                    ELSE Done(Returned(<<"[x]", " Collection not found: ">>
                                       \o collection_keys[first_missing],
                                       Looked(first_missing)), z)
               ELSE
               LET valid_collections == Range(collection_keys)
                   updated_collections ==
                       UpdatedCollections(current_collections,
                                          valid_collections)
                   updated ==
                       [item EXCEPT
                          !.data.collections = Some(updated_collections)]
                   calls == Append(Looked(Len(collection_keys)),
                                   Call("update_item", updated))
               IN IF z.update_fails = 1
                  THEN Done(Returned(WriteError("update_item"), calls), z)
                  ELSE Done(Returned(
                         <<"[ok]", " Added item ^">> \o item_key \o <<"^ to ">>
                         \o IntToStr(Cardinality(valid_collections))
                         \o <<" collection(s)">> \o NL
                         \o <<"- New collections: ">>
                         \o Join(SetOrder(order, valid_collections), <<", ">>)
                         \o NL \o <<"- Total collections now: ">>
                         \o IntToStr(Cardinality(updated_collections)),
                         calls),
                       Stored(z, updated))

\* s.lower()
LowerStr(s) == [i \in DOMAIN s |-> Lower(s[i])]

\* the loop over the requested tags, without the note it takes of the tags
\* it has appended
RECURSIVE NewTagsUnnoted(_, _, _)
NewTagsUnnoted(tags, existing_tags, skip_duplicates) ==
    IF tags = <<>> THEN <<>>
    ELSE LET tag == Head(tags)
             tag_lower == LowerStr(tag)
         IN IF skip_duplicates /\ tag_lower \in existing_tags
            THEN NewTagsUnnoted(Tail(tags), existing_tags, skip_duplicates)
            ELSE <<[tag |-> tag]>>
                 \o NewTagsUnnoted(Tail(tags), existing_tags, skip_duplicates)

\* the loop over the requested tags: new_tags
RECURSIVE NewTags(_, _, _)
NewTags(tags, existing_tags, skip_duplicates) ==
    IF tags = <<>> THEN <<>>
    ELSE LET tag == Head(tags)
             tag_lower == LowerStr(tag)
         IN IF skip_duplicates /\ tag_lower \in existing_tags
            THEN NewTags(Tail(tags), existing_tags, skip_duplicates)
            ELSE <<[tag |-> tag]>>
                 \o NewTags(Tail(tags), existing_tags \cup {tag_lower},
                            skip_duplicates)

add_tags_to_item(z, item_key, tags, skip_duplicates) ==
    IF get_zotero_client(z)
    THEN Done(Raised("get_zotero_client", <<ClientCall>>), z)
    ELSE LET c1 == <<ClientCall, Call("item", item_key)>>
         IN IF z.item_raises
            THEN Done(Returned(WriteError("item"), c1), z)
            ELSE IF z.items[item_key] = None
            THEN Done(Returned(<<"[x]", " Item not found with key: ">>
                               \o item_key, c1), z)
            ELSE
            LET item == z.items[item_key][1]
                old_tags == DictGet(item.data.tags, <<>>)
                existing_tags ==
                    {LowerStr(old_tags[i].tag) : i \in DOMAIN old_tags}
                new_tags == NewTags(tags, existing_tags, skip_duplicates)
                updated == [item EXCEPT !.data.tags = Some(old_tags \o new_tags)]
                calls == Append(c1, Call("update_item", updated))
                added_tags == [i \in DOMAIN new_tags |-> new_tags[i].tag]
            IN IF new_tags = <<>>
               THEN Done(Returned(<<"[info]",
                                    " All tags already exist for item: ">>
                                  \o item_key, c1), z)
               ELSE IF z.update_fails = 1
               THEN Done(Returned(WriteError("update_item"), calls), z)
               ELSE Done(Returned(
                      <<"[ok]", " Added ">> \o IntToStr(Len(added_tags))
                      \o <<" tag(s) to item ^">> \o item_key \o <<"^:">> \o NL
                      \o <<"- ">> \o Join(added_tags, <<",", " ">>) \o NL
                      \o <<"Total tags now: ">>
                      \o IntToStr(Len(old_tags \o new_tags)),
                      calls),
                    Stored(z, updated))

\* the relations dict of a record without relations: {}
EmptyRelations == [dc_relation |-> None, owl_sameAs |-> None]

\* update_relations that keeps only the new key
update_relations_anew(item, related_key) ==
    [item EXCEPT !.data.relations =
        Some([EmptyRelations EXCEPT !.dc_relation = Some({related_key})])]

\* update_relations(item, related_key), action "add"
update_relations(item, related_key) ==
    LET relations == DictGet(item.data.relations, EmptyRelations)
        related_items == DictGet(relations.dc_relation, {}) \cup {related_key}
    IN [item EXCEPT !.data.relations =
           Some([relations EXCEPT !.dc_relation = Some(related_items)])]

add_related_item(z, source_item_key, target_item_key, bidirectional) ==
    IF get_zotero_client(z)
    THEN Done(Raised("get_zotero_client", <<ClientCall>>), z)
    ELSE
    LET c1 == <<ClientCall, Call("item", source_item_key)>>
        c2 == Append(c1, Call("item", target_item_key))
    IN IF z.item_raises THEN Done(Returned(WriteError("item"), c1), z)
       ELSE IF z.items[source_item_key] = None
       THEN Done(Returned(<<"[x]", " Source item not found: ">>
                          \o source_item_key, c2), z)
       ELSE IF z.items[target_item_key] = None
       THEN Done(Returned(<<"[x]", " Target item not found: ">>
                          \o target_item_key, c2), z)
       ELSE
       LET source_item == update_relations(z.items[source_item_key][1],
                                           target_item_key)
           target_item == update_relations(z.items[target_item_key][1],
                                           source_item_key)
           c3 == Append(c2, Call("update_item", source_item))
           c4 == Append(c3, Call("update_item", target_item))
           z1 == Stored(z, source_item)
           Linked(relation_type) ==
               <<"[ok]", " Successfully linked items (", relation_type, "):">>
               \o NL \o <<"- Source: ^">> \o source_item_key
               \o <<"^ -> Target: ^">> \o target_item_key \o <<"^">> \o NL
               \o <<"- Relations now include: ">>
               \o IntToStr(Cardinality(
                      source_item.data.relations[1].dc_relation[1]))
               \o <<" links">>
       IN IF z.update_fails = 1
          THEN Done(Returned(WriteError("update_item"), c3), z)
          ELSE IF bidirectional
          THEN IF z.update_fails = 2
               THEN Done(Returned(WriteError("update_item"), c4), z1)
               ELSE Done(Returned(Linked("bidirectional"), c4),
                         Stored(z1, target_item))
          ELSE Done(Returned(Linked("one-way"), c3), z1)

\* what the library holds once it has answered a restore request with 204:
\* the deleted flag of the restored records is dropped ("cleared") or set
\* to 0 ("zero") and they leave the trash, or nothing has changed yet
\* ("kept")
Restored(z, keys) ==
    IF z.restore_effect = "kept" THEN z
    ELSE [z EXCEPT
            !.items = [k \in DOMAIN z.items |->
                          IF k \in Range(keys) /\ z.items[k] # None
                          THEN Some([z.items[k][1] EXCEPT !.data.deleted =
                                       IF z.restore_effect = "zero"
                                       THEN Some(0) ELSE None])
                          ELSE z.items[k]],
            !.trash = SelectSeq(z.trash, LAMBDA k : k \notin Range(keys))]

\* str(e) of the KeyError of restored_item["data"]["deleted"]
DeletedKeyError == <<"'deleted'">>

StillDeleted ==
    <<"[x]", " Item still marked as deleted (check library sync status)">>

restore_deleted_item(z, item_key, restore_attachments) ==
    IF get_zotero_client(z)
    THEN Done(Raised("get_zotero_client", <<ClientCall>>), z)
    ELSE
    LET c1 == <<ClientCall, Call("deleted_items", <<>>)>>
        c2 == IF restore_attachments
              THEN Append(c1, Call("children", item_key)) ELSE c1
        children == IF restore_attachments THEN z.children[item_key] ELSE <<>>
        restore_payload ==
            [items |-> <<item_key>> \o children, collections |-> <<>>,
             searches |-> <<>>, tags |-> <<>>, relations |-> <<>>]
        c3 == Append(c2, Call("_request", restore_payload))
        c4 == Append(c3, Call("item", item_key))
        z1 == Restored(z, restore_payload.items)
    IN IF z.trash_raises
       THEN Done(Returned(WriteError("deleted_items"), c1), z)
       ELSE IF item_key \notin Range(z.trash)
       THEN Done(Returned(<<"[x]", " Item not found in trash: ">>
                          \o item_key, c1), z)
       ELSE IF restore_attachments /\ z.children_raises
       THEN Done(Returned(WriteError("children"), c2), z)
       ELSE IF z.restore_raises
       THEN Done(Returned(WriteError("_request"), c3), z)
       ELSE IF z.restore_status # 204
       THEN Done(Returned(<<"[x]", " Restoration failed (HTTP ">>
                          \o IntToStr(z.restore_status) \o <<")">>, c3), z)
       ELSE IF z.item_raises
       THEN Done(Returned(WriteError("item"), c4), z1)
       ELSE IF z1.items[item_key] = None
       THEN Done(Returned(StillDeleted, c4), z1)
       ELSE IF z1.items[item_key][1].data.deleted = None
       THEN Done(Returned(<<"[alarm]", " Error: ">> \o DeletedKeyError, c4),
                 z1)
       ELSE IF z1.items[item_key][1].data.deleted = Some(0)
       THEN Done(Returned(
              <<"[ok]", " Successfully restored item ^">> \o item_key
              \o <<"^">> \o NL \o <<"- Restored attachments/notes: ">>
              \o IntToStr(Len(restore_payload.items) - 1), c4), z1)
       ELSE Done(Returned(StillDeleted, c4), z1)

----------------------------------------------------------------------------
(* Libraries                                                               *)

KeyA == <<"AAAA1111">>
KeyB == <<"BBBB2222">>
\* a key the library holds no record for
KeyGone == <<"GONE0000">>

CollX == <<"COLLX001">>
CollY == <<"COLLY002">>
\* a key the library holds no collection for
CollGone == <<"COLLGONE">>

\* the data of a record as far as the writing tools read it
LibraryData ==
    [tags |-> None, collections |-> None, relations |-> None,
     deleted |-> None]

LibraryItem(key, data) == [key |-> key, data |-> data]

\* a library that answers every call, holding records a and b
Library(a, b) ==
    [client_raises |-> FALSE,
     item_raises |-> FALSE,
     items |-> [k \in {KeyA, KeyB, KeyGone} |->
                   IF k = KeyA THEN a ELSE IF k = KeyB THEN b ELSE None],
     collections |-> {CollX, CollY},
     collection_raises |-> FALSE,
     update_fails |-> 0,
     trash_raises |-> FALSE, trash |-> <<>>,
     children_raises |-> FALSE,
     children |-> [k \in {KeyA, KeyB, KeyGone} |-> <<>>],
     restore_raises |-> FALSE, restore_status |-> 204,
     restore_effect |-> "cleared"]

\* the orders in which the elements of a set can be listed
Orders(set) ==
    {order \in [1..Cardinality(set) -> set] : Range(order) = set}

\* the longest list of keys or tags a call is given
MaxRequest == 2

----------------------------------------------------------------------------
(* add_item_to_collection on records in none, one or both collections     *)

AddItemToCollection ==
    \E item_key \in DOMAIN zot.items,
       collection_keys \in Texts({CollX, CollY, CollGone}, MaxRequest),
       order \in Orders(zot.collections) :
        LET done == add_item_to_collection(zot, item_key, collection_keys,
                                           order)
        IN /\ collection_out' =
                  Invoked([item_key |-> item_key,
                           collection_keys |-> collection_keys], done.out)
           /\ zot' = done.zot
           /\ UNCHANGED <<read_outs, tags_out, related_out, restore_out>>

\* the collection lists a record may come with
CollectionLists == {None} \cup {Some(c) : c \in SUBSET {CollX, CollY}}

CollectionLibraries ==
    {[Library(Some(LibraryItem(KeyA, [LibraryData EXCEPT !.collections = a])),
              Some(LibraryItem(KeyB, [LibraryData EXCEPT !.collections = b])))
        EXCEPT !.client_raises = f[1], !.item_raises = f[2],
               !.collection_raises = f[3], !.update_fails = f[4]] :
      a \in CollectionLists, b \in {None, Some({CollX})},
      f \in {<<FALSE, FALSE, FALSE, 0>>, <<TRUE, FALSE, FALSE, 0>>,
             <<FALSE, TRUE, FALSE, 0>>, <<FALSE, FALSE, TRUE, 0>>,
             <<FALSE, FALSE, FALSE, 1>>}}

InitCollections == zot \in CollectionLibraries /\ NoCalls

SpecCollections == InitCollections /\ [][AddItemToCollection]_vars

----------------------------------------------------------------------------
(* add_tags_to_item on a record with up to MaxItemTags tags                *)

\* the most tags a record of the model gets to hold
MaxItemTags == 3

TagValues == {<<"a">>, <<"A">>, <<"b">>}

AddTagsToItem ==
    \E item_key \in DOMAIN zot.items,
       tags \in Texts(TagValues, MaxRequest),
       skip_duplicates \in BOOLEAN :
        LET done == add_tags_to_item(zot, item_key, tags, skip_duplicates)
        IN /\ zot.items[item_key] # None =>
                  Len(DictGet(zot.items[item_key][1].data.tags, <<>>))
                      + Len(tags) <= MaxItemTags
           /\ tags_out' =
                  Invoked([item_key |-> item_key, tags |-> tags,
                           skip_duplicates |-> skip_duplicates], done.out)
           /\ zot' = done.zot
           /\ UNCHANGED <<read_outs, collection_out, related_out,
                          restore_out>>

\* the tag lists a record may come with, repeats included
ItemTagLists ==
    {None} \cup {Some([i \in DOMAIN t |-> [tag |-> t[i]]]) :
                    t \in Texts(TagValues, MaxRequest)}

\* a library whose one record has the tag list t
Tagged(t) ==
    Library(Some(LibraryItem(KeyA, [LibraryData EXCEPT !.tags = t])), None)

\* every tag list in a library that answers, and a tagged and an untagged
\* record in libraries one call of which fails
TagLibraries ==
    {Tagged(t) : t \in ItemTagLists}
    \cup {[Tagged(t) EXCEPT !.client_raises = f[1], !.item_raises = f[2],
                            !.update_fails = f[3]] :
            t \in {None, Some(<<[tag |-> <<"a">>]>>)},
            f \in {<<TRUE, FALSE, 0>>, <<FALSE, TRUE, 0>>,
                   <<FALSE, FALSE, 1>>}}

InitTagging == zot \in TagLibraries /\ NoCalls

SpecTagging == InitTagging /\ [][AddTagsToItem]_vars

----------------------------------------------------------------------------
(* add_related_item on records with and without relations                  *)

AddRelatedItem ==
    \E source_item_key \in DOMAIN zot.items,
       target_item_key \in DOMAIN zot.items,
       bidirectional \in BOOLEAN :
        LET done == add_related_item(zot, source_item_key, target_item_key,
                                     bidirectional)
        IN /\ related_out' =
                  Invoked([source_item_key |-> source_item_key,
                           target_item_key |-> target_item_key,
                           bidirectional |-> bidirectional], done.out)
           /\ zot' = done.zot
           /\ UNCHANGED <<read_outs, tags_out, collection_out, restore_out>>

\* the relations a record may come with: no relations field, an empty one,
\* or links to the other record and to a record that is gone
RelationDicts ==
    {None, Some(EmptyRelations),
     Some([EmptyRelations EXCEPT !.owl_sameAs = Some(<<"http://x">>)])}
    \cup {Some([EmptyRelations EXCEPT !.dc_relation = Some(links)]) :
             links \in SUBSET {KeyB, KeyGone}}

RelationLibraries ==
    {[Library(Some(LibraryItem(KeyA, [LibraryData EXCEPT !.relations = a])),
              Some(LibraryItem(KeyB, [LibraryData EXCEPT !.relations = b])))
        EXCEPT !.client_raises = f[1], !.item_raises = f[2],
               !.update_fails = f[3]] :
      a \in RelationDicts,
      b \in {None, Some([EmptyRelations EXCEPT
                            !.dc_relation = Some({KeyGone})])},
      f \in {<<FALSE, FALSE, 0>>, <<TRUE, FALSE, 0>>, <<FALSE, TRUE, 0>>,
             <<FALSE, FALSE, 1>>, <<FALSE, FALSE, 2>>}}

InitRelations == zot \in RelationLibraries /\ NoCalls

SpecRelations == InitRelations /\ [][AddRelatedItem]_vars

----------------------------------------------------------------------------
(* restore_deleted_item on a trash of up to two records                    *)

RestoreDeletedItem ==
    \E item_key \in DOMAIN zot.items, restore_attachments \in BOOLEAN :
        LET done == restore_deleted_item(zot, item_key, restore_attachments)
        IN /\ restore_out' =
                  Invoked([item_key |-> item_key,
                           restore_attachments |-> restore_attachments],
                          done.out)
           /\ zot' = done.zot
           /\ UNCHANGED <<read_outs, tags_out, collection_out, related_out>>

\* the most attachments and notes a record has
MaxChildren == 2

\* the keys of the first n children of a record
ChildKeys(n) == [i \in 1..n |-> <<"CHILD00", Digits[i + 1]>>]

\* a record, marked as deleted when its key is in the trash listing
Trashed(key, trash) ==
    Some(LibraryItem(key, [LibraryData EXCEPT !.deleted =
                              IF key \in Range(trash) THEN Some(1) ELSE None]))

TrashLibraries ==
    {[Library(Trashed(KeyA, t), Trashed(KeyB, t)) EXCEPT
        !.trash = t,
        !.children = [k \in DOMAIN @ |->
                         IF k = KeyA THEN ChildKeys(n) ELSE <<>>],
        !.restore_status = status, !.restore_effect = effect,
        !.client_raises = f[1], !.trash_raises = f[2],
        !.children_raises = f[3], !.restore_raises = f[4],
        !.item_raises = f[5]] :
      t \in {<<>>, <<KeyA>>, <<KeyB, KeyA>>, <<KeyGone>>},
      n \in 0..MaxChildren,
      status \in {204, 403},
      effect \in {"cleared", "zero", "kept"},
      f \in {<<FALSE, FALSE, FALSE, FALSE, FALSE>>,
             <<TRUE, FALSE, FALSE, FALSE, FALSE>>,
             <<FALSE, TRUE, FALSE, FALSE, FALSE>>,
             <<FALSE, FALSE, TRUE, FALSE, FALSE>>,
             <<FALSE, FALSE, FALSE, TRUE, FALSE>>,
             <<FALSE, FALSE, FALSE, FALSE, TRUE>>}}

InitTrash == zot \in TrashLibraries /\ NoCalls

SpecTrash == InitTrash /\ [][RestoreDeletedItem]_vars

----------------------------------------------------------------------------
(* C1: every failure of the collaborator is caught at the tool boundary    *)

\* C1: no call of get_item_metadata, get_item_fulltext or search_items
\* lets an exception escape; each returns a string whatever call of the
\* collaborator fails (client construction, item, children, full text,
\* search).
C1_NoExceptionEscapes ==
    \A out \in {meta_out, full_out, search_out} :
        out # None => out[1].kind = "return"

----------------------------------------------------------------------------
(* C2: the Document Content section of get_item_fulltext                   *)

\* get_item_fulltext reached the rendering of a resolved attachment
AttachmentRendered ==
    /\ full_out # None
    /\ ~zot.client_raises /\ ~zot.item_raises /\ zot.item # None
    /\ ~zot.attachment_raises /\ zot.attachment # None
    /\ ~zot.fulltext_raises

\* the full-text fetch yielded no content: no result, a result without a
\* content field, or an empty content string
NoContent ==
    \/ zot.fulltext = None
    \/ zot.fulltext[1].content = None
    \/ zot.fulltext[1].content = Some(<<>>)

\* the text under the Document Content heading of get_item_fulltext's output
DocumentContent ==
    LET rest == After(full_out[1].val, "## Document Content")
    IN SubSeq(rest, 3, Len(rest))

\* C2: once an attachment is resolved the Document Content section is always
\* there; it holds the extraction warning, with no word count shown, exactly
\* when the fetch yielded no content (no result, no content field, or an
\* empty content string); otherwise it holds the extracted text and the word
\* count shown is the number of whitespace-separated tokens of that text.
C2_WarningIffNoContent ==
    AttachmentRendered =>
        LET out == full_out[1].val
        IN /\ Has(out, "## Document Content")
           /\ IF NoContent
              THEN /\ DocumentContent = ExtractionWarning
                   /\ ~Has(out, "- **Word Count**: ~")
              ELSE /\ DocumentContent = zot.fulltext[1].content[1]
                   /\ Has(out, "- **Word Count**: ~")
                   /\ Lines(After(out, "- **Word Count**: ~"))[1]
                          = IntToStr(WordStarts(zot.fulltext[1].content[1]))

----------------------------------------------------------------------------
(* C3: volume, issue and pages of a regular record                         *)

\* get_item_metadata rendered the record the collaborator holds
Rendered ==
    /\ meta_out # None /\ meta_out[1].kind = "return"
    /\ ~zot.item_raises /\ zot.item # None

RenderedRegular ==
    Rendered /\ DictGet(zot.item[1].data.itemType, <<"unknown">>) # NoteType

\* C3 as stated: volume, issue and pages show up only inside the
\* publication line: nowhere when publicationTitle is absent, and appended
\* to the "Publication: " line itself when it is present; issue and pages
\* only when volume is present.
C3_VolumeOnPublicationLine ==
    RenderedRegular =>
        LET data == zot.item[1].data
            out == meta_out[1].val
            pub == LinesWith(out, "Publication: ")
        IN /\ data.publicationTitle = None =>
                  ~Has(out, "Volume: ") /\ ~Has(out, ", Issue: ")
                  /\ ~Has(out, ", Pages: ")
           /\ Truthy(data.publicationTitle) /\ Truthy(data.volume) =>
                  Len(pub) = 1 /\ Has(pub[1], "Volume: ")
           /\ \A l \in {Lines(out)[k] : k \in DOMAIN Lines(out)} :
                  Has(l, "Volume: ") \/ Has(l, ", Issue: ") \/ Has(l, ", Pages: ")
                      => l \in {pub[k] : k \in DOMAIN pub}
           /\ Has(out, ", Issue: ") \/ Has(out, ", Pages: ")
                  => Has(out, "Volume: ")

\* the volume line a record calls for
ExpectedVolumeLine(data) ==
    <<"Volume: ">> \o data.volume[1]
    \o (IF Truthy(data.issue) THEN <<", Issue: ">> \o data.issue[1] ELSE <<>>)
    \o (IF Truthy(data.pages) THEN <<", Pages: ">> \o data.pages[1] ELSE <<>>)

\* C3, amended: volume, issue and pages are rendered on a line of their
\* own, "Volume: v[, Issue: i][, Pages: p]", emitted exactly when volume is
\* non-empty whether or not there is a publication title; it directly
\* follows the "Publication: <title>" line when there is one, and the
\* publication line holds the title only; issue and pages are appended to
\* the volume line, comma-joined, and appear only if volume is present.
C3_VolumeOnOwnLine ==
    RenderedRegular =>
        LET data == zot.item[1].data
            out == meta_out[1].val
            lines == Lines(out)
            pub == LinesWith(out, "Publication: ")
            vol == LinesWith(out, "Volume: ")
        IN /\ IF Truthy(data.publicationTitle)
              THEN pub = << <<"Publication: ">> \o data.publicationTitle[1] >>
              ELSE pub = <<>>
           /\ IF Truthy(data.volume)
              THEN vol = << ExpectedVolumeLine(data) >>
              ELSE vol = <<>>
           /\ \A k \in DOMAIN lines :
                  Has(lines[k], "Volume: ") \/ Has(lines[k], ", Issue: ")
                  \/ Has(lines[k], ", Pages: ")
                      => /\ vol # <<>> /\ lines[k] = vol[1]
                         /\ pub # <<>> => lines[k - 1] = pub[1]
           /\ Has(out, ", Issue: ") \/ Has(out, ", Pages: ")
                  => data.volume # None

\* a record with volume, issue and pages but no publication title rendered
C3_Witness ==
    /\ RenderedRegular
    /\ zot.item[1].data.publicationTitle = None
    /\ Truthy(zot.item[1].data.volume) /\ Truthy(zot.item[1].data.issue)
    /\ Truthy(zot.item[1].data.pages)
    /\ Has(meta_out[1].val, ", Pages: ")

----------------------------------------------------------------------------
(* C6: the layout of a regular record                                      *)

\* the section a line of a rendered regular record opens or belongs to, by
\* its first atom; 0 for the lines inside a section (text, blank lines)
SectionRank(line) ==
    IF line = <<>> THEN 0
    ELSE CASE line[1] = "Publication: " -> 2
           [] line[1] = "Volume: " -> 3
           [] line[1] = "### Abstract" -> 4
           [] line[1] = "### Tags" -> 5
           [] line[1] = "### Identifiers" -> 6
           [] line[1] = "URL: " -> 7
           [] line[1] = "DOI: " -> 8
           [] line[1] = "ISBN: " -> 9
           [] line[1] = "ISSN: " -> 10
           [] line[1] = "### Additional Information" -> 11
           [] (\E i \in DOMAIN Uppers : Uppers[i] = line[1]) /\ Has(line, ": ") -> 1
           [] OTHER -> 0

\* whether the record has the field a section of that rank renders
HasFieldOf(item, rank) ==
    LET data == item.data
    IN CASE rank = 1 -> data.creators # None
         [] rank = 2 -> data.publicationTitle # None
         [] rank = 3 -> data.volume # None
         [] rank = 4 -> data.abstractNote # None
         [] rank = 5 -> data.tags # None
         [] rank = 6 -> data.url # None \/ data.DOI # None
                        \/ data.ISBN # None \/ data.ISSN # None
         [] rank = 7 -> data.url # None
         [] rank = 8 -> data.DOI # None
         [] rank = 9 -> data.ISBN # None
         [] rank = 10 -> data.ISSN # None
         [] rank = 11 -> item.meta # None /\ NumChildren(item) > 0
         [] OTHER -> TRUE

\* C6: a regular record is rendered as the title heading ("Untitled"
\* without a title), "Item Key: ^key^", "Type: itemType" and "Date: date"
\* ("No date" without a date) on the first four lines, in that order; after
\* them the optional sections come in the order creator roles, publication
\* (with its volume line), abstract, tags, identifiers (URL, DOI, ISBN,
\* ISSN), child count, each at most once (one line per role for creators)
\* and only when the record has its field (numChildren > 0 for the count).
C6_HeadAndSectionOrder ==
    RenderedRegular /\ zot.item[1].data.itemType # None =>
        LET item == zot.item[1]
            data == item.data
            lines == Lines(meta_out[1].val)
        IN /\ Len(lines) >= 4
           /\ lines[1] = <<"## ">> \o (IF data.title = None THEN <<"Untitled">>
                                       ELSE data.title[1])
           /\ lines[2] = <<"Item Key: ^">> \o item.key \o <<"^">>
           /\ lines[3] = <<"Type: ">> \o data.itemType[1]
           /\ lines[4] = <<"Date: ">> \o (IF data.date = None THEN <<"No date">>
                                          ELSE data.date[1])
           /\ \A i \in 5..Len(lines) :
                  /\ HasFieldOf(item, SectionRank(lines[i]))
                  /\ \A j \in (i + 1)..Len(lines) :
                         SectionRank(lines[i]) > 0 /\ SectionRank(lines[j]) > 0
                             => \/ SectionRank(lines[i]) < SectionRank(lines[j])
                                \/ SectionRank(lines[i]) = 1
                                   /\ SectionRank(lines[j]) = 1

\* a record without title and date and with every optional section rendered
C6_Witness ==
    /\ RenderedRegular
    /\ zot.item[1].data.title = None /\ zot.item[1].data.date = None
    /\ LET ranks == {SectionRank(Lines(meta_out[1].val)[k]) :
                        k \in DOMAIN Lines(meta_out[1].val)}
       IN (1..11) \subseteq ranks

----------------------------------------------------------------------------
(* C4: the creator lines of a regular record                               *)

\* "LastName, FirstName" when both name parts are there, else the bare
\* name, empty when there is none
DisplayName(creator) ==
    IF creator.firstName # None /\ creator.lastName # None
    THEN creator.lastName[1] \o <<", ">> \o creator.firstName[1]
    ELSE IF creator.name # None THEN creator.name[1] ELSE <<>>

RoleOf(creator) ==
    IF creator.creatorType = None THEN Contributor ELSE creator.creatorType[1]

\* the role lines called for by a list of creators: one per distinct role
\* in first-seen order, listing that role's creators in order
ExpectedRoleLines(creators) ==
    LET firsts == SelectSeq([i \in DOMAIN creators |-> i],
                            LAMBDA i : \A j \in 1..(i - 1) :
                                RoleOf(creators[j]) # RoleOf(creators[i]))
        Line(role) ==
            LET same == SelectSeq(creators, LAMBDA c : RoleOf(c) = role)
            IN Capitalize(role)
               \o (IF Len(same) > 1 THEN <<"s">> ELSE <<>>)
               \o <<": ">>
               \o Join([k \in DOMAIN same |-> DisplayName(same[k])], <<"; ">>)
    IN [k \in DOMAIN firsts |-> Line(RoleOf(creators[firsts[k]]))]

\* the lines after the four head lines of a record that has nothing but
\* creators
RoleLinesShown == SubSeq(Lines(meta_out[1].val), 5, Len(Lines(meta_out[1].val)))

OnlyCreators ==
    /\ RenderedRegular
    /\ zot.item[1].data.creators # None
    /\ zot.item[1] = Item([EmptyData EXCEPT
                             !.itemType = zot.item[1].data.itemType,
                             !.title = zot.item[1].data.title,
                             !.date = zot.item[1].data.date,
                             !.creators = zot.item[1].data.creators])

\* C4 as stated: one line per distinct role of the record's creators, in
\* first-seen order (no role counts as "contributor"), listing the role's
\* creators in input order joined by "; ", labelled with the capitalized
\* role plus "s" exactly when more than one creator of the record has it.
C4_OneLinePerRole ==
    OnlyCreators =>
        RoleLinesShown = ExpectedRoleLines(zot.item[1].data.creators[1])

\* C4, amended: the same, counting only the creators that have something
\* to display (both name parts, or a non-empty name): a creator without is
\* left out of its role's line and of the count behind the plural "s", and
\* a role none of whose creators has a display name gets no line.
C4_OneLinePerNamedRole ==
    OnlyCreators =>
        RoleLinesShown =
            ExpectedRoleLines(SelectSeq(zot.item[1].data.creators[1],
                                        LAMBDA c : DisplayName(c) # <<>>))

\* two authors sharing a line, a second role, and a creator with nothing
\* to display, rendered
C4_Witness ==
    /\ OnlyCreators
    /\ \E c \in {zot.item[1].data.creators[1][k] :
                    k \in DOMAIN zot.item[1].data.creators[1]} :
           DisplayName(c) = <<>>
    /\ Len(RoleLinesShown) >= 2
    /\ \E k \in DOMAIN RoleLinesShown :
           RoleLinesShown[k] = Capitalize(Author) \o <<"s", ": ", "Doe", ", ",
                                 "John", "; ", "Smith", ", ", "Jane">>

----------------------------------------------------------------------------
(* C5: the authors field of a search entry                                 *)

\* search_items rendered the one regular record the collaborator found
SearchedRegular ==
    /\ search_out # None /\ search_out[1].kind = "return"
    /\ Len(zot.results) = 1
    /\ DictGet(zot.results[1].data.itemType, <<"unknown">>) # NoteType

\* the authors field of the entry
AuthorsShown == Tail(LinesWith(search_out[1].val, "**Authors**: ")[1])

EtAl(creators) ==
    IF Len(creators) > MaxSearchCreators THEN << <<"et al.">> >> ELSE <<>>

\* C5 as stated: the first 3 creators in input order, each by its display
\* name, joined by "; ", then "et al." exactly when there are more than 3
\* creators; "No authors" when there are no creators, and only then.
C5_FirstThreeCreators ==
    SearchedRegular /\ zot.results[1].data.creators # None =>
        LET creators == zot.results[1].data.creators[1]
            first == Prefix(creators, MaxSearchCreators)
        IN /\ AuthorsShown = <<"No authors">> <=> creators = <<>>
           /\ creators # <<>> =>
                  AuthorsShown =
                      Join([k \in DOMAIN first |-> DisplayName(first[k])]
                           \o EtAl(creators), <<"; ">>)

\* a creator entry the search renderer can name: both name parts, or a
\* name field
Nameable(creator) ==
    \/ creator.firstName # None /\ creator.lastName # None
    \/ creator.name # None

\* C5, amended: those of the first 3 creators that have both name parts or
\* a name field, in input order, each by its display name, joined by "; ",
\* then "et al." exactly when the record has more than 3 creators; "No
\* authors" exactly when the record has at most 3 creators and none of
\* them has both name parts or a name field (zero creators included).
C5_FirstThreeNameableCreators ==
    SearchedRegular /\ zot.results[1].data.creators # None =>
        LET creators == zot.results[1].data.creators[1]
            first == SelectSeq(Prefix(creators, MaxSearchCreators), Nameable)
        IN /\ AuthorsShown = <<"No authors">>
                  <=> Len(creators) <= MaxSearchCreators /\ first = <<>>
           /\ ~(Len(creators) <= MaxSearchCreators /\ first = <<>>) =>
                  AuthorsShown =
                      Join([k \in DOMAIN first |-> DisplayName(first[k])]
                           \o EtAl(creators), <<"; ">>)

\* a record with more than 3 creators, one of the first 3 with nothing to
\* display, rendered with "et al."
C5_Witness ==
    /\ SearchedRegular
    /\ zot.results[1].data.creators # None
    /\ Len(zot.results[1].data.creators[1]) > MaxSearchCreators
    /\ \E k \in 1..MaxSearchCreators :
           ~Nameable(zot.results[1].data.creators[1][k])
    /\ Has(AuthorsShown, "et al.")

----------------------------------------------------------------------------
(* C7: truncation of abstracts and note previews in search results         *)

\* search_items rendered the one note the collaborator found
SearchedNote ==
    /\ search_out # None /\ search_out[1].kind = "return"
    /\ Len(zot.results) = 1
    /\ DictGet(zot.results[1].data.itemType, <<"unknown">>) = NoteType

\* a result with nothing between its head lines and its text, and nothing
\* after the text
BareResult ==
    LET data == zot.results[1].data
    IN /\ data.publicationTitle = None /\ data.bookTitle = None
       /\ data.publisher = None /\ data.creators = None
       /\ data.parentItem = None /\ data.tags = None

\* the abstract a search entry shows: what follows the authors line and
\* the blank line after it
AbstractShown ==
    LET rest == After(search_out[1].val, "**Authors**: ")
    IN SubSeq(rest, 4, Len(rest))

\* the preview a note entry shows: what follows the type/key line and the
\* blank line after it
PreviewShown ==
    LET rest == After(search_out[1].val, "**Type**: Note | **Key**: ^")
    IN SubSeq(rest, 5, Len(rest))

\* the abstract the full record shows
FullAbstractShown ==
    LET rest == After(meta_out[1].val, "### Abstract")
    IN SubSeq(rest, 2, Len(rest))

\* a text cut down for a search entry: unchanged up to 150 characters,
\* else its first 147 characters and three dots
Shortened(text) ==
    IF Len(text) <= 150 THEN text
    ELSE [i \in 1..150 |-> IF i <= 147 THEN text[i] ELSE "."]

\* C7: a search entry shows an abstract, and the body of a note, unchanged
\* when it has at most 150 characters and as its first 147 characters plus
\* "..." (150 characters in all) when it is longer; the full record shows
\* the same abstract in full whatever its length.
C7_TruncatedInSearchOnly ==
    /\ SearchedRegular /\ BareResult =>
           AbstractShown =
               Shortened(DictGet(zot.results[1].data.abstractNote, <<>>))
    /\ SearchedNote /\ BareResult =>
           PreviewShown =
               Shortened(Strip(NoteToMarkdown(
                   DictGet(zot.results[1].data.note, <<>>))))
    /\ RenderedRegular /\ Truthy(zot.item[1].data.abstractNote)
       /\ zot.item[1].data.tags = None =>
           FullAbstractShown = zot.item[1].data.abstractNote[1]

\* an abstract of more than 150 characters shown cut to 150 by the search
\* and in full by the full record
C7_Witness ==
    /\ SearchedRegular /\ BareResult /\ RenderedRegular
    /\ zot.item[1] = zot.results[1]
    /\ Truthy(zot.item[1].data.abstractNote)
    /\ Len(zot.item[1].data.abstractNote[1]) > 150
    /\ Len(AbstractShown) = 150
    /\ SubSeq(AbstractShown, 148, 150) = <<".", ".", ".">>
    /\ Len(FullAbstractShown) > 150

----------------------------------------------------------------------------
(* C8: tags in search results and in the full record                       *)

CodeSpan(tag) == <<"^">> \o tag.tag \o <<"^">>

\* what follows "**Tags**: " on the tag line of the search entry
SearchTagsShown == Tail(LinesWith(search_out[1].val, "**Tags**: ")[1])

\* the line under the "### Tags" heading of the full record
FullTagsShown == Lines(After(meta_out[1].val, "### Tags"))[2]

\* C8: for a tag list of length n the search entry shows the first
\* min(n, 5) tags as inline code, in input order, joined by one space, and
\* a "..." token after them exactly when n > 5; the full record, note or
\* regular, shows all n in input order joined by ", ", duplicates included.
\* With n = 0 neither shows a tag section.
C8_TagsShown ==
    /\ search_out # None /\ search_out[1].kind = "return"
       /\ Len(zot.results) = 1 /\ zot.results[1].data.tags # None =>
           LET tags == zot.results[1].data.tags[1]
               n == Len(tags)
               shown == IF n < 5 THEN n ELSE 5
           IN IF n = 0 THEN ~Has(search_out[1].val, "**Tags**: ")
              ELSE SearchTagsShown =
                       Join([k \in 1..shown |-> CodeSpan(tags[k])]
                            \o (IF n > 5 THEN << <<".", ".", ".">> >> ELSE <<>>),
                            <<" ">>)
    /\ Rendered /\ zot.item[1].data.tags # None =>
           LET tags == zot.item[1].data.tags[1]
           IN IF tags = <<>> THEN ~Has(meta_out[1].val, "### Tags")
              ELSE FullTagsShown =
                       Join([k \in DOMAIN tags |-> CodeSpan(tags[k])], <<", ">>)

\* a record with more than 5 tags, two of them equal, rendered both ways
C8_Witness ==
    /\ search_out # None /\ search_out[1].kind = "return" /\ Rendered
    /\ zot.results = <<zot.item[1]>>
    /\ zot.item[1].data.tags # None
    /\ Len(zot.item[1].data.tags[1]) > 5
    /\ zot.item[1].data.tags[1][1] = zot.item[1].data.tags[1][2]
    /\ Has(SearchTagsShown, ".")
    /\ ~Has(FullTagsShown, ".")

----------------------------------------------------------------------------
(* C9: the note HTML clean-up                                              *)

\* what each piece of a note turns into: the paragraph opening vanishes,
\* paragraph end and line break become a newline, bold turns into "**" and
\* italic into "*"; "<<p>br>" is a line break once its "<p>" is gone,
\* because the substitutions run one after the other in the listed order
Images ==
    << <<<<"<", "<", "p", ">", "b", "r", ">">>, NL>>,
       <<POpen, <<>> >>,
       <<PClose, NL>>,
       <<<<"<", "b", "r", ">">>, NL>>,
       <<<<"<", "s", "t", "r", "o", "n", "g", ">">>, <<"*", "*">> >>,
       <<<<"<", "/", "s", "t", "r", "o", "n", "g", ">">>, <<"*", "*">> >>,
       <<<<"<", "e", "m", ">">>, <<"*">> >>,
       <<<<"<", "/", "e", "m", ">">>, <<"*">> >> >>

StartsWith(s, t) == Len(s) >= Len(t) /\ SubSeq(s, 1, Len(t)) = t

\* the clean-up read off the note from left to right: each known piece
\* replaced by its image, every other character kept
RECURSIVE ExpectedMarkdown(_)
ExpectedMarkdown(note) ==
    IF note = <<>> THEN <<>>
    ELSE IF \E k \in DOMAIN Images : StartsWith(note, Images[k][1])
    THEN LET k == CHOOSE k \in DOMAIN Images :
                      /\ StartsWith(note, Images[k][1])
                      /\ \A j \in 1..(k - 1) : ~StartsWith(note, Images[j][1])
         IN Images[k][2]
            \o ExpectedMarkdown(SubSeq(note, Len(Images[k][1]) + 1, Len(note)))
    ELSE <<note[1]>> \o ExpectedMarkdown(Tail(note))

\* the note content the full record shows
FullNoteShown ==
    LET rest == After(meta_out[1].val, "### Note Content")
    IN SubSeq(rest, 2, Len(rest))

RenderedNote ==
    Rendered /\ DictGet(zot.item[1].data.itemType, <<"unknown">>) = NoteType

\* C9: the full record and the search entry clean a note up the same way:
\* "<p>" goes, "</p>" and "<br>" become a newline, "<strong>" and
\* "</strong>" become "**", "<em>" and "</em>" become "*", in that order,
\* and everything else, unknown tags and tags with attributes included,
\* stays as it is; "<p>Hello</p><p>World</p>" gives "Hello\nWorld\n".
\* The search entry shows that text trimmed and cut to 150 characters.
C9_SameCleanUp ==
    /\ RenderedNote =>
           /\ FullNoteShown =
                  ExpectedMarkdown(DictGet(zot.item[1].data.note, <<>>))
           /\ zot.item[1].data.note = Some(HelloWorld) =>
                  FullNoteShown = <<"H", "e", "l", "l", "o", "\n",
                                    "W", "o", "r", "l", "d", "\n">>
    /\ SearchedNote /\ BareResult =>
           PreviewShown =
               Shortened(Strip(ExpectedMarkdown(
                   DictGet(zot.results[1].data.note, <<>>))))
    /\ RenderedNote /\ SearchedNote /\ BareResult
       /\ zot.results = <<zot.item[1]>> =>
           PreviewShown = Shortened(Strip(FullNoteShown))

\* a note with a bold tag, a tag with an attribute and the hidden line
\* break rendered both ways
C9_Witness ==
    /\ RenderedNote /\ SearchedNote /\ zot.results = <<zot.item[1]>>
    /\ zot.item[1].data.note =
           Some(<<"<", "s", "t", "r", "o", "n", "g", ">",
                  "<", "p", " ", "i", "d", ">">>)
    /\ FullNoteShown = <<"*", "*", "<", "p", " ", "i", "d", ">">>
    /\ PreviewShown = FullNoteShown

----------------------------------------------------------------------------
(* C10: the title of a note in search results                              *)

\* the title on the heading of the note entry
TitleShown ==
    LET heading == LinesWith(search_out[1].val, "## ")[1]
    IN SubSeq(heading, 4, Len(heading))

\* the cleaned-up and trimmed note of the result
TrimmedNote ==
    Strip(NoteToMarkdown(DictGet(zot.results[1].data.note, <<>>)))

\* its first line, as it stands
FirstLine == Lines(TrimmedNote)[1]

\* the title a first line calls for
TitleFor(line) ==
    IF Len(line) <= 50 THEN line
    ELSE Join(Prefix(SplitWords(line), 5), <<" ">>) \o <<".", ".", ".">>

\* C10 as stated: the title is the first line of the cleaned-up and
\* trimmed note when that line has at most 50 characters, else its first 5
\* words joined by single spaces plus "..."; "Note" when the note has no
\* content; and never empty.
C10_TitleFromFirstLine ==
    SearchedNote =>
        /\ TitleShown = IF TrimmedNote = <<>> THEN <<"Note">>
                        ELSE TitleFor(FirstLine)
        /\ TitleShown # <<>>

\* C10, amended: the first line is itself trimmed before it is measured and
\* used: the title is the trimmed first line of the cleaned-up and trimmed
\* note when that has at most 50 characters, else its first 5 words joined
\* by single spaces plus "..."; "Note" when the cleaned-up note has no
\* content (missing, empty, whitespace only); and never empty.
C10_TitleFromTrimmedFirstLine ==
    SearchedNote =>
        /\ TitleShown = IF TrimmedNote = <<>> THEN <<"Note">>
                        ELSE TitleFor(Strip(FirstLine))
        /\ TitleShown # <<>>

\* a note whose first line ends in whitespace and has more than 50
\* characters and more than 5 words, shown with a 5-word title
C10_Witness ==
    /\ SearchedNote
    /\ FirstLine # Strip(FirstLine)
    /\ Len(Strip(FirstLine)) > 50
    /\ Len(SplitWords(FirstLine)) > 5
    /\ TitleShown = Join(Prefix(SplitWords(FirstLine), 5), <<" ">>)
                    \o <<".", ".", ".">>

----------------------------------------------------------------------------
(* C11: get_item_fulltext on a record with no attachment                   *)

\* get_item_fulltext fetched an existing record and the attachment
\* resolution answered that there is none
NoAttachmentResolved ==
    /\ full_out # None
    /\ ~zot.client_raises /\ ~zot.item_raises /\ zot.item # None
    /\ ~zot.attachment_raises /\ zot.attachment = None

\* C11: for an existing record with no resolvable attachment,
\* get_item_fulltext returns the rendered record followed by an
\* "Attachment Information" section that holds the fixed "No suitable
\* attachment found" message; the output has no "Document Content" section
\* and no full-text fetch is issued.
C11_NoAttachmentNoContent ==
    NoAttachmentResolved =>
        LET out == full_out[1]
            record == format_item(zot.item[1])
            rest == SubSeq(out.val, Len(record) + 1, Len(out.val))
        IN /\ out.kind = "return"
           /\ Prefix(out.val, Len(record)) = record
           /\ Lines(rest) = <<<<>>, <<>>, <<"## Attachment Information">>,
                              NoAttachmentMessage>>
           /\ ~Has(out.val, "## Document Content")
           /\ \A i \in DOMAIN out.calls : out.calls[i].op # "fulltext_item"

\* the call on a record with no attachment, made where the full-text fetch
\* would have failed or found text
C11_Witness ==
    /\ NoAttachmentResolved
    /\ zot.fulltext_raises \/ zot.fulltext # None
    /\ Has(full_out[1].val, NoAttachmentMessage[1])
    /\ Ops(full_out[1].calls)
           = <<"get_zotero_client", "item", "get_attachment_details">>

----------------------------------------------------------------------------
(* C12: the order of the collaborator calls of the two item tools          *)

\* the fetch of the record answered that there is none
ItemAbsent == ~zot.client_raises /\ ~zot.item_raises /\ zot.item = None

\* the key the record was asked for
FetchedKey(out) == out.calls[2].arg

\* no call of the outcome resolves an attachment, lists children or
\* fetches full text
NothingBeyondTheItem(out) ==
    \A i \in DOMAIN out.calls :
        out.calls[i].op
            \notin {"get_attachment_details", "children", "fulltext_item"}

\* C12: in get_item_metadata and get_item_fulltext the record is fetched
\* before anything else is asked of the library; when the fetch answers
\* that there is no record the result is "No item found with key: <key>"
\* and no attachment resolution, children fetch or full-text fetch is
\* made; in get_item_fulltext the full-text fetch comes only after an
\* attachment was resolved, and only for the key of that attachment.
C12_FetchOrder ==
    \A o \in {meta_out, full_out} :
        o # None =>
            LET out == o[1] IN
            /\ \A i \in DOMAIN out.calls :
                   out.calls[i].op \notin {"get_zotero_client", "item"}
                       => \E j \in 1..(i - 1) : out.calls[j].op = "item"
            /\ ItemAbsent =>
                   /\ out.kind = "return"
                   /\ out.val = <<"No item found with key: ">>
                                \o FetchedKey(out)
                   /\ NothingBeyondTheItem(out)
            /\ \A i \in DOMAIN out.calls :
                   out.calls[i].op = "fulltext_item" =>
                       /\ \E j \in 1..(i - 1) :
                              out.calls[j].op = "get_attachment_details"
                       /\ ~zot.attachment_raises /\ zot.attachment # None
                       /\ out.calls[i].arg = zot.attachment[1].key

\* both tools were called on a library without the record, and the full
\* text of a record was fetched for its second attachment
C12_Witness ==
    \/ /\ ItemAbsent
       /\ meta_out # None /\ full_out # None
       /\ meta_out[1].val = <<"No item found with key: ">> \o ItemKey
    \/ /\ full_out # None
       /\ zot.attachment = Some(SnapshotAttachment)
       /\ Ops(full_out[1].calls)
              = <<"get_zotero_client", "item", "get_attachment_details",
                  "fulltext_item">>
       /\ full_out[1].calls[4].arg = SnapshotAttachment.key

----------------------------------------------------------------------------
(* Reading the outcome of a writing tool                                   *)

\* the records the call handed to zot.update_item, in order
Writes(out) ==
    LET updates == SelectSeq(out.calls, LAMBDA c : c.op = "update_item")
    IN [i \in DOMAIN updates |-> updates[i].arg]

\* the call returned one of its error strings
ErrorResult(out) ==
    /\ out.kind = "return"
    /\ out.val[1] \in {"[x]", "[alarm]"}

\* the call returned its success string
SuccessResult(out) ==
    /\ out.kind = "return"
    /\ out.val[1] = "[ok]"

\* the library answered the fetch of the record
Fetched(z) == ~z.client_raises /\ ~z.item_raises

----------------------------------------------------------------------------
(* C13: add_item_to_collection only ever adds                              *)

\* C13: add_item_to_collection never takes a record out of a collection:
\* after a successful call the collections written for the record are the
\* union of the ones it had and the requested ones, each once; and when the
\* record or any one of the requested collections does not exist, an error
\* string is returned and nothing is written for the record at all.
C13_UnionAllOrNothing ==
    [][collection_out' # None =>
        LET out == collection_out'[1]
            key == out.args.item_key
            requested == Range(out.args.collection_keys)
        IN /\ SuccessResult(out) =>
                 LET previous == DictGet(zot.items[key][1].data.collections,
                                         {})
                 IN /\ Len(Writes(out)) = 1
                    /\ Writes(out)[1] =
                           [zot.items[key][1] EXCEPT
                              !.data.collections =
                                  Some(previous \cup requested)]
                    /\ zot' = [zot EXCEPT !.items[key] = Some(Writes(out)[1])]
           /\ (/\ Fetched(zot)
               /\ \/ zot.items[key] = None
                  \/ ~(requested \subseteq zot.collections)) =>
                 /\ ErrorResult(out)
                 /\ Writes(out) = <<>>
                 /\ zot' = zot
           /\ \A k \in DOMAIN zot.items :
                 zot.items[k] # None =>
                     /\ zot'.items[k] # None
                     /\ DictGet(zot.items[k][1].data.collections, {})
                            \subseteq
                        DictGet(zot'.items[k][1].data.collections, {})]_vars

\* a record that was in one collection is added to the other one, and a
\* later call that names a collection the library does not have is refused
C13_Witness ==
    /\ collection_out # None
    /\ collection_out[1].args.item_key = KeyA
    /\ collection_out[1].args.collection_keys = <<CollY, CollGone>>
    /\ ErrorResult(collection_out[1])
    /\ Fetched(zot)
    /\ zot.items[KeyA][1].data.collections = Some({CollX, CollY})

----------------------------------------------------------------------------
(* C14: add_tags_to_item with skip_duplicates                              *)

\* two tags are the same when case is ignored
SameTag(s, t) ==
    /\ Len(s) = Len(t)
    /\ \A i \in DOMAIN s : Upper(s[i]) = Upper(t[i])

\* the elements of a list at the positions of keep, in order
Pick(list, keep) ==
    LET Upto[n \in 0..Len(list)] ==
            IF n = 0 THEN <<>>
            ELSE IF n \in keep THEN Append(Upto[n - 1], list[n])
            ELSE Upto[n - 1]
    IN Upto[Len(list)]

\* the requested tags that match neither a tag of the record nor an
\* earlier tag of the request
FreshTags(previous, requested) ==
    Pick(requested,
         {i \in DOMAIN requested :
             /\ \A p \in DOMAIN previous :
                    ~SameTag(previous[p].tag, requested[i])
             /\ \A j \in 1..(i - 1) : ~SameTag(requested[j], requested[i])})

\* C14: with skip_duplicates=true add_tags_to_item never introduces a
\* duplicate: the tag list it writes is the previous tag list of the
\* record, unchanged and in order, followed by exactly those requested tags
\* (in request order) that match, ignoring case, neither a tag already on
\* the record nor an earlier tag of the same request; when no requested tag
\* is new it returns "All tags already exist" and writes nothing.
C14_SkipDuplicates ==
    [][(/\ tags_out' # None
        /\ tags_out'[1].args.skip_duplicates
        /\ Fetched(zot)
        /\ zot.items[tags_out'[1].args.item_key] # None) =>
        LET out == tags_out'[1]
            key == out.args.item_key
            item == zot.items[key][1]
            previous == DictGet(item.data.tags, <<>>)
            fresh == FreshTags(previous, out.args.tags)
            written == previous \o [i \in DOMAIN fresh |-> [tag |-> fresh[i]]]
        IN IF fresh = <<>>
           THEN /\ out.kind = "return"
                /\ out.val = <<"[info]", " All tags already exist for item: ">>
                             \o key
                /\ Writes(out) = <<>>
                /\ zot' = zot
           ELSE /\ Writes(out) = <<[item EXCEPT !.data.tags = Some(written)]>>
                /\ \A i \in DOMAIN written :
                       i > Len(previous) =>
                           \A j \in DOMAIN written :
                               j # i => ~SameTag(written[i].tag,
                                                 written[j].tag)
                /\ IF zot.update_fails = 1
                   THEN ErrorResult(out) /\ zot' = zot
                   ELSE /\ SuccessResult(out)
                        /\ zot'.items[key] = Some(Writes(out)[1])]_vars

\* a record tagged a is given A and b: only b is appended
C14_Witness ==
    /\ tags_out # None
    /\ tags_out[1].args.skip_duplicates
    /\ tags_out[1].args.tags = <<<<"A">>, <<"b">>>>
    /\ SuccessResult(tags_out[1])
    /\ zot.items[KeyA] # None
    /\ zot.items[KeyA][1].data.tags
           = Some(<<[tag |-> <<"a">>], [tag |-> <<"b">>]>>)

----------------------------------------------------------------------------
(* C15: the links add_related_item writes                                  *)

\* the dc:relation links of a record
Links(item) ==
    DictGet(DictGet(item.data.relations, EmptyRelations).dc_relation, {})

\* C15: add_related_item on two existing records.  With bidirectional=true,
\* after a successful call the relations written for the source hold the
\* target key, the relations written for the target hold the source key,
\* and every relation either record had before is still there.  With
\* bidirectional=false only the source record is written: no other record
\* of the library, the target included, is updated.
C15_LinksWritten ==
    [][(/\ related_out' # None
        /\ SuccessResult(related_out'[1])) =>
        LET out == related_out'[1]
            source == out.args.source_item_key
            target == out.args.target_item_key
        IN /\ zot.items[source] # None /\ zot.items[target] # None
           /\ IF out.args.bidirectional
              THEN /\ Len(Writes(out)) = 2
                   /\ Writes(out)[1].key = source
                   /\ Writes(out)[2].key = target
                   /\ target \in Links(Writes(out)[1])
                   /\ source \in Links(Writes(out)[2])
                   /\ Links(zot.items[source][1]) \subseteq Links(Writes(out)[1])
                   /\ Links(zot.items[target][1]) \subseteq Links(Writes(out)[2])
                   /\ target \in Links(zot'.items[source][1])
                   /\ source \in Links(zot'.items[target][1])
                   /\ \A k \in {source, target} :
                          /\ Links(zot.items[k][1])
                                 \subseteq Links(zot'.items[k][1])
                          /\ DictGet(zot.items[k][1].data.relations,
                                     EmptyRelations).owl_sameAs
                                 = zot'.items[k][1].data.relations[1].owl_sameAs
              ELSE /\ Len(Writes(out)) = 1
                   /\ Writes(out)[1].key = source
                   /\ target \in Links(zot'.items[source][1])
                   /\ Links(zot.items[source][1])
                          \subseteq Links(zot'.items[source][1])
                   /\ \A k \in DOMAIN zot.items :
                          k # source => zot'.items[k] = zot.items[k]]_vars

\* two different records that both had a link to a third one are linked in
\* both directions and keep that link
C15_Witness ==
    /\ related_out # None
    /\ SuccessResult(related_out[1])
    /\ related_out[1].args
           = [source_item_key |-> KeyA, target_item_key |-> KeyB,
              bidirectional |-> TRUE]
    /\ Links(zot.items[KeyA][1]) = {KeyB, KeyGone}
    /\ Links(zot.items[KeyB][1]) = {KeyA, KeyGone}

----------------------------------------------------------------------------
(* C16: add_related_item that returns an error                             *)

\* C16: whenever add_related_item returns an error result (source not
\* found, target not found, or a failure of the library that it caught),
\* the call has modified no record of the library: a bidirectional link is
\* written on both records or on neither.
C16_NothingWrittenOnError ==
    [][(/\ related_out' # None
        /\ ErrorResult(related_out'[1])) => zot'.items = zot.items]_vars

----------------------------------------------------------------------------
(* C17: restore_deleted_item                                               *)

\* the restore requests of the call
Requests(out) == SelectSeq(out.calls, LAMBDA c : c.op = "_request")

\* C17: restore_deleted_item sends the restore request only when the key
\* is in the trash listing (otherwise it returns "Item not found in trash"
\* and sends nothing); it reports "Successfully restored" exactly when the
\* request returned HTTP 204 and the record fetched again afterwards is not
\* marked as deleted (its deleted flag is 0 or not there); and with
\* restore_attachments=true the request also lists every child key of the
\* record, the count reported being the number of those children.
C17_RestoreReported ==
    [][restore_out' # None =>
        LET out == restore_out'[1]
            key == out.args.item_key
            listed == ~zot.client_raises /\ ~zot.trash_raises
            answered204 ==
                /\ Requests(out) # <<>>
                /\ ~zot.restore_raises /\ zot.restore_status = 204
            not_deleted ==
                /\ ~zot.item_raises
                /\ zot'.items[key] # None
                /\ zot'.items[key][1].data.deleted \in {None, Some(0)}
        IN /\ Requests(out) # <<>> => listed /\ key \in Range(zot.trash)
           /\ (listed /\ key \notin Range(zot.trash)) =>
                  /\ out.kind = "return"
                  /\ out.val = <<"[x]", " Item not found in trash: ">> \o key
                  /\ Requests(out) = <<>>
           /\ SuccessResult(out) <=> (answered204 /\ not_deleted)
           /\ (Requests(out) # <<>> /\ out.args.restore_attachments) =>
                  /\ Requests(out)[1].arg.items
                         = <<key>> \o zot.children[key]
                  /\ SuccessResult(out) =>
                         Lines(out.val)[2]
                             = <<"- Restored attachments/notes: ">>
                               \o IntToStr(Len(zot.children[key]))]_vars

====
